---- MODULE Spec2Model ----
(***************************************************************************)
(* Model of the itinerary worker (src/src/main.js): the POST / and         *)
(* GET /status/{jobId} handlers, the background generation task with its   *)
(* retry loop, the Firestore REST calls and the value codec.               *)
(*                                                                         *)
(* JavaScript values are tagged records:                                   *)
(*   [t |-> "null"], [t |-> "undefined"], [t |-> "bool", b |-> TRUE],      *)
(*   [t |-> "str", s |-> <<"a","b">>]   a string is its characters,        *)
(*   [t |-> "num", neg, int, frac]      a Number is its decimal expansion  *)
(*                                      (digits of the integer part and of *)
(*                                      the fraction), [t |-> "nan"] NaN,  *)
(*   [t |-> "arr", a |-> <<...>>], [t |-> "obj", f |-> [key |-> value]],   *)
(*   [t |-> "throw", m |-> message]     the outcome of a call that threw.  *)
(***************************************************************************)
EXTENDS Integers, Sequences, FiniteSets, TLC

(* ------------------------------------------------------------------ *)
(* JavaScript values                                                   *)
(* ------------------------------------------------------------------ *)

Null == [t |-> "null"]

Undefined == [t |-> "undefined"]

NaN == [t |-> "nan"]

Bool(b) == [t |-> "bool", b |-> b]

Str(cs) == [t |-> "str", s |-> cs]

Num(neg, int, frac) == [t |-> "num", neg |-> neg, int |-> int, frac |-> frac]

Arr(xs) == [t |-> "arr", a |-> xs]

Obj(f) == [t |-> "obj", f |-> f]

Throw(m) == [t |-> "throw", m |-> m]

EmptyFields == [k \in {} |-> Null]

IsThrow(v) == v.t = "throw"

\* Infinity and -Infinity.
Infinity(neg) == [t |-> "inf", neg |-> neg]

\* A function object, as a property inherited from a prototype is: a
\* built-in method, by the characters of its name and its length.
Fn(name, length) == [t |-> "function", name |-> name, length |-> length]

\* The message of a TypeError: of a property read on undefined or null, of
\* "in" on a value that is no object, of a call of what is no function and
\* of the conversion of an object without primitive value.
MsgTypeError == Str(<<"T", "y", "p", "e", "E", "r", "r", "o", "r">>)

\* The decimal digits of a non-negative integer.
RECURSIVE DigitsOf(_)
DigitsOf(n) == IF n < 10 THEN <<n>> ELSE DigitsOf(n \div 10) \o <<n % 10>>

JsInt(n) == IF n < 0 THEN Num(TRUE, DigitsOf(-n), <<>>) ELSE Num(FALSE, DigitsOf(n), <<>>)

\* ToBoolean(v)
Truthy(v) ==
  IF v.t \in {"undefined", "null", "nan"} THEN FALSE
  ELSE IF v.t = "bool" THEN v.b
  ELSE IF v.t = "str" THEN v.s # <<>>
  ELSE IF v.t = "num" THEN ~(v.int = <<0>> /\ v.frac = <<>>)
  ELSE TRUE

(* ------------------------------------------------------------------ *)
(* Number::toString and parseInt                                       *)
(* ------------------------------------------------------------------ *)

DigitChars == <<"0", "1", "2", "3", "4", "5", "6", "7", "8", "9">>

DigitChar(d) == DigitChars[d + 1]

IsDigitChar(c) == \E d \in 0..9 : DigitChars[d + 1] = c

CharDigit(c) == CHOOSE d \in 0..9 : DigitChars[d + 1] = c

DigitsToChars(ds) == [i \in 1..Len(ds) |-> DigitChar(ds[i])]

RECURSIVE NatToChars(_)
NatToChars(k) == IF k < 10 THEN <<DigitChar(k)>>
                 ELSE NatToChars(k \div 10) \o <<DigitChar(k % 10)>>

\* The count of leading elements of xs that satisfy P.
PrefixLen(xs, P(_)) ==
  IF \A i \in 1..Len(xs) : P(xs[i]) THEN Len(xs)
  ELSE (CHOOSE i \in 1..Len(xs) : ~P(xs[i]) /\ \A j \in 1..(i - 1) : P(xs[j])) - 1

Reverse(xs) == [i \in 1..Len(xs) |-> xs[Len(xs) + 1 - i]]

IsZero(d) == d = 0

LeadingZeros(ds) == PrefixLen(ds, IsZero)

\* The digits without their leading zeros; one digit is always left.
StripLeadingZeros(ds) ==
  LET Drop(n) == IF n = Len(ds) THEN <<0>> ELSE SubSeq(ds, n + 1, Len(ds))
  IN IF ds = <<>> THEN <<>> ELSE Drop(LeadingZeros(ds))

StripTrailingZeros(ds) == Reverse(StripLeadingZeros(Reverse(ds)))

\* The largest count of integer digits Number::toString writes out in full;
\* from 10^21 on it switches to exponent notation.
MaxPlainDigits == 21

\* The count of zeros after the point from which a fraction is written in
\* exponent notation (values below 10^-6).
MinExpZeros == 6

\* d[.ddd]e<sign><exponent> for the significant digits sig.
ExpNotation(sig, sign, e) ==
  <<DigitChar(sig[1])>>
    \o (IF Len(sig) > 1 THEN <<".">> \o DigitsToChars(Tail(sig)) ELSE <<>>)
    \o <<"e", sign>> \o NatToChars(e)

\* Number::toString(n), radix 10, as the characters of the result.
NumberToString(n) ==
  IF n.t = "nan" THEN <<"N", "a", "N">>
  ELSE IF n.t = "inf"
    THEN (IF n.neg THEN <<"-">> ELSE <<>>) \o <<"I", "n", "f", "i", "n", "i", "t", "y">>
  ELSE LET sign == IF n.neg THEN <<"-">> ELSE <<>>
           body ==
             IF n.frac = <<>>
             THEN IF Len(n.int) <= MaxPlainDigits
                  THEN DigitsToChars(n.int)
                  ELSE ExpNotation(StripTrailingZeros(n.int), "+", Len(n.int) - 1)
             ELSE IF n.int = <<0>> /\ LeadingZeros(n.frac) >= MinExpZeros
                  THEN ExpNotation(StripLeadingZeros(n.frac), "-", LeadingZeros(n.frac) + 1)
                  ELSE DigitsToChars(n.int) \o <<".">> \o DigitsToChars(n.frac)
       IN sign \o body

RECURSIVE JsToString(_)
\* ToString(x): the string a value converts to, or the TypeError thrown.  An
\* array is its elements joined with ",", null and undefined elements as "".
\* An object is "[object Object]" by Object.prototype.toString; one with an
\* own property "toString", which in a JSON value is no function, has no
\* primitive value (its valueOf gives the object) and the conversion throws.
JsToString(x) ==
  IF IsThrow(x) THEN x
  ELSE IF x.t \in {"str", "text"} THEN x
  ELSE IF x.t \in {"num", "nan", "inf"} THEN Str(NumberToString(x))
  ELSE IF x.t = "null" THEN Str(<<"n", "u", "l", "l">>)
  ELSE IF x.t = "undefined" THEN Str(<<"u", "n", "d", "e", "f", "i", "n", "e", "d">>)
  ELSE IF x.t = "bool"
    THEN Str(IF x.b THEN <<"t", "r", "u", "e">> ELSE <<"f", "a", "l", "s", "e">>)
  ELSE IF x.t = "arr"
    THEN LET Joined(els) ==
               LET join[i \in 0..Len(els)] ==
                     IF i = 0 THEN <<>>
                     ELSE IF i = 1 THEN els[1].s
                     ELSE join[i - 1] \o <<",">> \o els[i].s
               IN IF \E i \in 1..Len(els) : IsThrow(els[i])
                  THEN els[CHOOSE i \in 1..Len(els) :
                             IsThrow(els[i]) /\ \A j \in 1..(i - 1) : ~IsThrow(els[j])]
                  ELSE Str(join[Len(els)])
         IN Joined([i \in 1..Len(x.a) |->
                      IF x.a[i].t \in {"null", "undefined"} THEN Str(<<>>)
                      ELSE JsToString(x.a[i])])
  ELSE IF x.t = "function"
    THEN Str(<<"f", "u", "n", "c", "t", "i", "o", "n", " ">> \o x.name
               \o <<"(", ")", " ", "{", " ", "[", "n", "a", "t", "i", "v", "e", " ",
                    "c", "o", "d", "e", "]", " ", "}">>)
  ELSE IF "toString" \in DOMAIN x.f THEN Throw(MsgTypeError)
  ELSE Str(<<"[", "o", "b", "j", "e", "c", "t", " ", "O", "b", "j", "e", "c", "t", "]">>)

\* StrWhiteSpaceChar: the 25 white space characters and line terminators
\* parseInt skips.  A character is held as itself when it is U+0020 to
\* U+007E (but U+0060), tab, line feed, form feed, carriage return, U+000B,
\* U+00A0, U+FEFF or U+1680, and as the text of its escape otherwise.
IsWhiteSpace(c) ==
  c \in {" ", "\t", "\n", "\r", "\f", "", " ", "﻿", " ",
         "\\u2000", "\\u2001", "\\u2002", "\\u2003", "\\u2004", "\\u2005",
         "\\u2006", "\\u2007", "\\u2008", "\\u2009", "\\u200a",
         "\\u2028", "\\u2029", "\\u202f", "\\u205f", "\\u3000"}

SkipWhiteSpace(cs) == SubSeq(cs, PrefixLen(cs, IsWhiteSpace) + 1, Len(cs))

\* The digits of the longest run of decimal digits cs begins with.
DigitPrefix(cs) == [i \in 1..PrefixLen(cs, IsDigitChar) |-> CharDigit(cs[i])]

HexChars == <<"0", "1", "2", "3", "4", "5", "6", "7", "8", "9", "a", "b", "c", "d", "e", "f">>

HexUpperChars == <<"0", "1", "2", "3", "4", "5", "6", "7", "8", "9", "A", "B", "C", "D", "E", "F">>

IsHexChar(c) == \E d \in 0..15 : c \in {HexChars[d + 1], HexUpperChars[d + 1]}

HexDigit(c) == CHOOSE d \in 0..15 : c \in {HexChars[d + 1], HexUpperChars[d + 1]}

HexPrefix(cs) == [i \in 1..PrefixLen(cs, IsHexChar) |-> HexDigit(cs[i])]

\* Long arithmetic works on blocks of this many digits, and binary
\* conversion on limbs of LimbBits bits, to keep the recursion shallow.
Block == 16

LimbBits == 27

Limb == 2 ^ LimbBits

RECURSIVE MulAddDigits(_, _, _)
\* ds * m + a for decimal digits ds: as many low digits as ds has (d), and
\* what is carried out of them (c).
MulAddDigits(ds, m, a) ==
  IF ds = <<>> THEN [d |-> <<>>, c |-> a]
  ELSE LET high == SubSeq(ds, 1, Len(ds) - 1)
           t    == ds[Len(ds)] * m + a
           rest == MulAddDigits(high, m, t \div 10)
       IN IF t < 10 /\ m = 1 THEN [d |-> high \o <<t>>, c |-> 0]
          ELSE [d |-> rest.d \o <<t % 10>>, c |-> rest.c]

RECURSIVE MulAddBlocks(_, _, _)
\* The same by halves, the low half first and what it carries into the
\* high half.
MulAddBlocks(ds, m, a) ==
  LET h == Len(ds) \div 2
      Join(low, rest) == [d |-> rest.d \o low.d, c |-> rest.c]
      Carry(low) ==
        IF low.c = 0 /\ m = 1 THEN [d |-> SubSeq(ds, 1, h) \o low.d, c |-> 0]
        ELSE Join(low, MulAddBlocks(SubSeq(ds, 1, h), m, low.c))
  IN IF Len(ds) <= Block THEN MulAddDigits(ds, m, a)
     ELSE Carry(MulAddBlocks(SubSeq(ds, h + 1, Len(ds)), m, a))

\* The decimal digits of ds * m + a, for decimal digits ds and m <= Limb.
MulAdd(ds, m, a) ==
  LET Digits(x) == StripLeadingZeros((IF x.c = 0 THEN <<0>> ELSE DigitsOf(x.c)) \o x.d)
  IN Digits(MulAddBlocks(ds, m, a))

RECURSIVE FromRadixOnto(_, _, _)
\* The decimal digits of high * r^Len(ds) + the number whose digits in
\* radix r are ds, for decimal digits high: the digits are taken in from
\* the most significant one, by halves.
FromRadixOnto(high, ds, r) ==
  LET Shift(d) == IF high = <<0>> THEN DigitsOf(d) ELSE MulAdd(high, r, d)
      Low(mid) ==
        IF mid = <<>> THEN mid
        ELSE FromRadixOnto(mid, SubSeq(ds, (Len(ds) \div 2) + 1, Len(ds)), r)
  IN IF ds = <<>> THEN high
     ELSE IF Len(ds) = 1 THEN Shift(ds[1])
     ELSE Low(FromRadixOnto(high, SubSeq(ds, 1, Len(ds) \div 2), r))

\* The decimal digits of the number whose digits in radix r are ds.
FromRadix(ds, r) == FromRadixOnto(<<0>>, ds, r)

RECURSIVE DivDigits(_, _, _)
\* (r * 10^Len(ds) + ds) divided by m: the quotient's digits, as many as ds
\* has (q), and the remainder (r).
DivDigits(ds, r, m) ==
  IF ds = <<>> THEN [q |-> <<>>, r |-> r]
  ELSE LET t    == r * 10 + ds[1]
           rest == DivDigits(Tail(ds), t % m, m)
       IN [q |-> <<t \div m>> \o rest.q, r |-> rest.r]

RECURSIVE DivBlocks(_, _, _)
\* The same by halves, the high half first and what remains of it.
DivBlocks(ds, r, m) ==
  LET h == Len(ds) \div 2
      Join(head, rest) == [q |-> head.q \o rest.q, r |-> rest.r]
      Rest(head) == Join(head, DivBlocks(SubSeq(ds, h + 1, Len(ds)), head.r, m))
  IN IF Len(ds) <= Block THEN DivDigits(ds, r, m)
     ELSE Rest(DivBlocks(SubSeq(ds, 1, h), r, m))

RECURSIVE LimbsOnto(_, _, _)
\* Up to n times, by halves, the last digit in radix Limb of the decimal
\* integer q is taken off q and put before limbs.
LimbsOnto(q, limbs, n) ==
  LET Take(d) == [q |-> StripLeadingZeros(d.q), limbs |-> <<d.r>> \o limbs]
      More(x) == IF x.q = <<0>> THEN x ELSE LimbsOnto(x.q, x.limbs, n - (n \div 2))
  IN IF q = <<0>> THEN [q |-> q, limbs |-> limbs]
     ELSE IF n <= 1 THEN Take(DivBlocks(q, 0, Limb))
     ELSE More(LimbsOnto(q, limbs, n \div 2))

\* The digits in radix Limb of a decimal integer, most significant first.
ToLimbs(ds) == LimbsOnto(ds, <<>>, Len(ds)).limbs

\* The binary digits of a sequence of digits of w bits each, most
\* significant first, without leading zeros.
BitsOf(xs, w) ==
  LET all == [i \in 1..(w * Len(xs)) |->
                (xs[((i - 1) \div w) + 1] \div (2 ^ (w - 1 - ((i - 1) % w)))) % 2]
  IN IF \A i \in 1..Len(all) : all[i] = 0 THEN <<>>
     ELSE SubSeq(all, CHOOSE i \in 1..Len(all) :
                        all[i] = 1 /\ \A j \in 1..(i - 1) : all[j] = 0, Len(all))

RECURSIVE BitsValue(_)
\* The number a few bits denote.
BitsValue(bs) ==
  IF Len(bs) = 0 THEN 0
  ELSE IF Len(bs) = 1 THEN bs[1]
  ELSE LET h == Len(bs) \div 2
       IN BitsValue(SubSeq(bs, 1, h)) * (2 ^ (Len(bs) - h))
            + BitsValue(SubSeq(bs, h + 1, Len(bs)))

\* The decimal digits of the number whose binary digits are bs.
FromBits(bs) ==
  LET n   == (Len(bs) + LimbBits - 1) \div LimbBits
      pad == [i \in 1..(n * LimbBits - Len(bs)) |-> 0] \o bs
  IN FromRadix([k \in 1..n |-> BitsValue(SubSeq(pad, (k - 1) * LimbBits + 1, k * LimbBits))],
               Limb)

\* The bits of a Number's significand, and the most bits a finite Number's
\* integer value has.
SignificandBits == 53

MaxBits == 1024

\* bs + 1 on binary digits.
IncBits(bs) ==
  IF \A i \in 1..Len(bs) : bs[i] = 1 THEN <<1>> \o [i \in 1..Len(bs) |-> 0]
  ELSE LET p == CHOOSE i \in 1..Len(bs) : bs[i] = 0 /\ \A j \in (i + 1)..Len(bs) : bs[j] = 1
       IN [i \in 1..Len(bs) |-> IF i < p THEN bs[i] ELSE IF i = p THEN 1 ELSE 0]

\* The count of significant digits every Number keeps exactly, the most
\* that tell two Numbers apart, and the most digits a finite Number's
\* integer value has.
SafeDigits == 15

MaxShortest == 17

MaxDecimalDigits == 309

\* The digits of a fraction without its trailing zeros; none may be left.
StripTrailingFraction(fp) ==
  Reverse(SubSeq(Reverse(fp), LeadingZeros(Reverse(fp)) + 1, Len(fp)))

\* The most binary places a value is looked at: the least positive Number
\* is 2^-1074, and what lies below half of it, 2^-1075, rounds to 0.
MaxScale == 1075

\* 10^-324 lies below 2^-1075: a decimal below it is 0.
MinDecimalExponent == -324

\* More significant digits than the midpoint of any two Numbers has: what
\* follows them in a decimal matters only by being zero or not.
MaxSignificant == 800

\* The factors of 5 in the largest power of 5 below Limb.
FiveBlock == 11

RECURSIVE MulPow(_, _, _, _)
\* The decimal digits of ds * b^n, at most c factors at a time (b^c <=
\* Limb), by halves of n.
MulPow(ds, b, c, n) ==
  LET Rest(x, h) == IF x = <<>> THEN x ELSE MulPow(x, b, c, n - h)
  IN IF n <= c THEN MulAdd(ds, b ^ n, 0)
     ELSE Rest(MulPow(ds, b, c, ((n + c) \div (2 * c)) * c), ((n + c) \div (2 * c)) * c)

\* Binary digits without their leading zeros.
SignificantBits(bs) ==
  IF \A i \in 1..Len(bs) : bs[i] = 0 THEN <<>>
  ELSE SubSeq(bs, CHOOSE i \in 1..Len(bs) : bs[i] = 1 /\ \A j \in 1..(i - 1) : bs[j] = 0,
              Len(bs))

\* The integer with binary digits bits, or a value above it and below the
\* next integer when more is set, rounded to a multiple of 2^drop, ties to
\* even, and divided by 2^drop.  It is rounded up when the highest of the
\* digits dropped is set, and either more is below it or the last of the
\* digits kept is odd.
RoundAway(bits, drop, more) ==
  LET RoundsUp(kept, low) ==
        low # <<>> /\ low[1] = 1
          /\ (more \/ (\E i \in 2..Len(low) : low[i] = 1) \/ kept[Len(kept)] = 1)
      RoundCut(kept, low) == IF RoundsUp(kept, low) THEN IncBits(kept) ELSE kept
      Split(all) ==
        RoundCut(SubSeq(all, 1, Len(all) - drop), SubSeq(all, Len(all) - drop + 1, Len(all)))
  IN SignificantBits(Split([i \in 1..(drop + 1 - Len(bits)) |-> 0] \o bits))

\* The power of two by which a decimal integer of n digits divided by 10^f
\* is scaled, so that the quotient has more bits than a significand holds;
\* no more than MaxScale.
ScaleFor(n, f) ==
  LET Clamp(p) == IF p < 0 THEN 0 ELSE IF p > MaxScale THEN MaxScale ELSE p
  IN Clamp(SignificandBits + 6 + (((f - n + 1) * 3322) \div 1000))

\* The binary digits dropped of n, which stand for a multiple of 2^-p: those
\* beyond a significand, and those below 2^-1074.
DropCount(n, p) ==
  IF n - SignificandBits >= p - (MaxScale - 1)
  THEN (IF n > SignificandBits THEN n - SignificandBits ELSE 0)
  ELSE p - (MaxScale - 1)

\* The Number 0, and Infinity, as m * 2^e.
ZeroBinary == [m |-> <<>>, e |-> 0]

InfBinary == [m |-> <<1>>, e |-> MaxBits]

\* The Number nearest to bits * 2^-p, or to a value above it and below
\* (bits + 1) * 2^-p when more is set: rounded to 53 bits and to a multiple
\* of 2^-1074, ties to even, as m * 2^e with the binary digits m of an odd
\* integer; Infinity from 2^1024 on.
RoundedBinary(bits, more, p) ==
  LET Ranged(rs, e) ==
        IF rs = <<>> THEN ZeroBinary
        ELSE IF Len(rs) + e > MaxBits THEN InfBinary
        ELSE [m |-> SubSeq(rs, 1, Len(rs) - LeadingZeros(Reverse(rs))),
              e |-> e + LeadingZeros(Reverse(rs))]
  IN Ranged(RoundAway(bits, DropCount(Len(bits), p), more), DropCount(Len(bits), p) - p)

\* The Number nearest to n * 2^-p / 10^f for decimal digits n: what is left
\* of the division tells on which side of a tie the value lies.
QuotientBinary(n, f, p) ==
  RoundedBinary(BitsOf(ToLimbs(IF Len(n) > f THEN SubSeq(n, 1, Len(n) - f) ELSE <<0>>),
                       LimbBits),
                \E i \in 1..Len(n) : i > Len(n) - f /\ n[i] # 0,
                p)

\* The Number nearest to whole / 10^f: the decimal is scaled by a power of
\* two first.
ScaledBinary(whole, f) ==
  QuotientBinary(MulPow(whole, 2, LimbBits, ScaleFor(Len(whole), f)), f,
                 ScaleFor(Len(whole), f))

\* The Number nearest to digits * 10^e10, ties to even, as m * 2^e.
NearestBinary(digits, e10) ==
  ScaledBinary(digits \o [i \in 1..e10 |-> 0], IF e10 < 0 THEN -e10 ELSE 0)

\* The exact decimal expansion of m * 2^e: its digits ds and the count s of
\* them that follow the point.
ExactDecimal(b) ==
  IF b.e >= 0 THEN [ds |-> FromBits(b.m \o [i \in 1..b.e |-> 0]), s |-> 0]
  ELSE [ds |-> MulPow(FromBits(b.m), 5, FiveBlock, -b.e), s |-> -b.e]

\* No digits: what Shortest gives when no candidate reads back.
NoDigits == [ds |-> <<>>, e10 |-> 0]

\* The candidate of k significant digits that reads back as the Number b,
\* whose exact expansion is the digits e with s of them after the point, or
\* no digits: the candidates are the first k digits of e and the next
\* above, the one nearer to e first.
ShortestAt(e, s, k, b) ==
  LET Candidates ==
        IF e[k + 1] > 5
             \/ (e[k + 1] = 5 /\ ((\E i \in (k + 2)..Len(e) : e[i] # 0) \/ e[k] % 2 = 1))
        THEN <<MulAdd(SubSeq(e, 1, k), 1, 1), SubSeq(e, 1, k)>>
        ELSE <<SubSeq(e, 1, k), MulAdd(SubSeq(e, 1, k), 1, 1)>>
      First(fits) == IF fits = <<>> THEN NoDigits ELSE [ds |-> fits[1], e10 |-> Len(e) - k - s]
  IN First(SelectSeq(Candidates, LAMBDA ds : NearestBinary(ds, Len(e) - k - s) = b))

RECURSIVE Shortest(_, _, _, _, _)
\* The digits Number::toString gives the Number b, if they are from lo to
\* hi significant digits: the fewest that still read back as b, the
\* candidate nearer to the exact value first; ds * 10^e10.  The counts are
\* tried in order, by halves.
Shortest(e, s, lo, hi, b) ==
  LET High(r) == IF r # NoDigits THEN r ELSE Shortest(e, s, ((lo + hi) \div 2) + 1, hi, b)
  IN IF lo > hi THEN NoDigits
     ELSE IF lo = hi THEN ShortestAt(e, s, lo, b)
     ELSE High(Shortest(e, s, lo, (lo + hi) \div 2, b))

\* The digits Number::toString gives the Number b with the exact expansion
\* x: the shortest that read back, and the expansion itself when it has no
\* more than they.
ShortestDigits(b, x) ==
  LET Found(r) == IF r = NoDigits THEN [ds |-> x.ds, e10 |-> -x.s] ELSE r
  IN Found(Shortest(x.ds, x.s, 1,
                    IF Len(x.ds) - 1 < MaxShortest THEN Len(x.ds) - 1 ELSE MaxShortest, b))

\* The Number with the decimal digits ds * 10^e10, in positional form.
PositionalNum(neg, ds, e10) ==
  IF e10 >= 0 THEN Num(neg, ds \o [i \in 1..e10 |-> 0], <<>>)
  ELSE IF Len(ds) > -e10
    THEN Num(neg, SubSeq(ds, 1, Len(ds) + e10),
             StripTrailingFraction(SubSeq(ds, Len(ds) + e10 + 1, Len(ds))))
  ELSE Num(neg, <<0>>, StripTrailingFraction([i \in 1..(-e10 - Len(ds)) |-> 0] \o ds))

\* The Number m * 2^e, written with the digits Number::toString gives it.
BinaryNumber(neg, b) ==
  LET Written(r) == PositionalNum(neg, r.ds, r.e10)
  IN IF b = ZeroBinary THEN Num(FALSE, <<0>>, <<>>)
     ELSE IF b = InfBinary THEN Infinity(neg)
     ELSE Written(ShortestDigits(b, ExactDecimal(b)))

\* The significant digits of d that are looked at, and a 1 for what
\* follows them.
Significant(d) ==
  IF Len(d) > MaxSignificant THEN SubSeq(d, 1, MaxSignificant) \o <<1>> ELSE d

\* The Number d * 10^e for digits d that neither begin nor end with 0.  A
\* numeral of up to 15 significant digits within the range of the normal
\* Numbers denotes the Number written with those digits.
SizedNumber(neg, d, e) ==
  IF Len(d) + e > MaxDecimalDigits THEN Infinity(neg)
  ELSE IF Len(d) + e <= MinDecimalExponent THEN Num(FALSE, <<0>>, <<>>)
  ELSE IF Len(d) <= SafeDigits /\ Len(d) + e < MaxDecimalDigits
          /\ Len(d) + e > MinDecimalExponent + MaxShortest
    THEN PositionalNum(neg, d, e)
  ELSE BinaryNumber(neg, NearestBinary(Significant(d), e + Len(d) - Len(Significant(d))))

\* The Number d * 10^e10 for digits d that do not begin with 0, but 0.
StrippedNumber(neg, d, e10) ==
  IF d = <<0>> THEN Num(FALSE, <<0>>, <<>>)
  ELSE SizedNumber(neg, StripTrailingZeros(d), e10 + Len(d) - Len(StripTrailingZeros(d)))

\* The Number a decimal numeral denotes, digits * 10^e10: the nearest
\* double, written with the digits Number::toString gives it.
DecimalNumber(neg, digits, e10) == StrippedNumber(neg, StripLeadingZeros(digits), e10)

\* The Number an integer's binary digits denote, as parseInt gives it for
\* hexadecimal digits.
ToNumber(neg, bs) == BinaryNumber(neg, RoundedBinary(bs, FALSE, 0))

\* The digits of parseInt's string after the sign.
ParseUnsigned(neg, s1) ==
  IF Len(s1) >= 2 /\ s1[1] = "0" /\ s1[2] \in {"x", "X"}
  THEN (IF HexPrefix(SubSeq(s1, 3, Len(s1))) = <<>> THEN NaN
        ELSE ToNumber(neg, BitsOf(HexPrefix(SubSeq(s1, 3, Len(s1))), 4)))
  ELSE IF DigitPrefix(s1) = <<>> THEN NaN
  ELSE DecimalNumber(neg, DigitPrefix(s1), 0)

\* The sign of parseInt's string after the white space.
ParseSigned(s0) ==
  ParseUnsigned(s0 # <<>> /\ s0[1] = "-",
                IF s0 # <<>> /\ s0[1] \in {"-", "+"} THEN Tail(s0) ELSE s0)

\* parseInt(string) with no radix: leading white space, an optional sign,
\* after "0x" or "0X" the longest run of hexadecimal digits and otherwise
\* the longest run of decimal digits; NaN when the run is empty.
ParseIntChars(cs) == ParseSigned(SkipWhiteSpace(cs))

\* A decoder that hands integerValue on as it came, without parseInt.
ParseIntMissing(x) == x

\* parseInt(x): x is converted to a string first (ToString), then parsed.
ParseInt(x) ==
  LET Parse(string) == IF IsThrow(string) THEN string ELSE ParseIntChars(string.s)
  IN Parse(JsToString(x))

(* ------------------------------------------------------------------ *)
(* Property reads                                                      *)
(* ------------------------------------------------------------------ *)

RECURSIVE KeyOf(_)
\* The property key with the characters cs, as one string: the characters
\* joined, a backslash doubled.  A character held as the text of its escape
\* begins with a single backslash, so that it and the six characters that
\* spell its escape make different keys, as they do in an object.
KeyOf(cs) ==
  IF cs = <<>> THEN ""
  ELSE IF Len(cs) = 1 THEN (IF cs[1] = "\\" THEN "\\\\" ELSE cs[1])
  ELSE KeyOf(SubSeq(cs, 1, Len(cs) \div 2)) \o KeyOf(SubSeq(cs, (Len(cs) \div 2) + 1, Len(cs)))

\* The properties a prototype provides, by key: its methods, each given by
\* the characters of its name and its length, and its constructor (a
\* function of length 1).
Methods(constructor, prototype) ==
  LET AsFn(m) == Fn(m[1], m[2])
  IN [k \in {KeyOf(m[1]) : m \in prototype} |->
        AsFn(CHOOSE m \in prototype : KeyOf(m[1]) = k)]
       @@ ("constructor" :> Fn(constructor, 1))

\* What Object.prototype provides, and what the prototypes of arrays,
\* strings, numbers, booleans and functions provide with it.
ObjectChain ==
  Methods(<<"O", "b", "j", "e", "c", "t">>,
          { <<<<"t", "o", "S", "t", "r", "i", "n", "g">>, 0>>,
            <<<<"t", "o", "L", "o", "c", "a", "l", "e", "S", "t", "r", "i", "n", "g">>, 0>>,
            <<<<"v", "a", "l", "u", "e", "O", "f">>, 0>>,
            <<<<"h", "a", "s", "O", "w", "n", "P", "r", "o", "p", "e", "r", "t", "y">>, 1>>,
            <<<<"i", "s", "P", "r", "o", "t", "o", "t", "y", "p", "e", "O", "f">>, 1>>,
            <<<<"p", "r", "o", "p", "e", "r", "t", "y", "I", "s", "E", "n", "u", "m", "e", "r", "a", "b", "l", "e">>, 1>>,
            <<<<"_", "_", "d", "e", "f", "i", "n", "e", "G", "e", "t", "t", "e", "r", "_", "_">>, 2>>,
            <<<<"_", "_", "d", "e", "f", "i", "n", "e", "S", "e", "t", "t", "e", "r", "_", "_">>, 2>>,
            <<<<"_", "_", "l", "o", "o", "k", "u", "p", "G", "e", "t", "t", "e", "r", "_", "_">>, 1>>,
            <<<<"_", "_", "l", "o", "o", "k", "u", "p", "S", "e", "t", "t", "e", "r", "_", "_">>, 1>> })

ArrayChain ==
  Methods(<<"A", "r", "r", "a", "y">>,
          { <<<<"a", "t">>, 1>>,
            <<<<"c", "o", "n", "c", "a", "t">>, 1>>,
            <<<<"c", "o", "p", "y", "W", "i", "t", "h", "i", "n">>, 2>>,
            <<<<"e", "n", "t", "r", "i", "e", "s">>, 0>>,
            <<<<"e", "v", "e", "r", "y">>, 1>>,
            <<<<"f", "i", "l", "l">>, 1>>,
            <<<<"f", "i", "l", "t", "e", "r">>, 1>>,
            <<<<"f", "i", "n", "d">>, 1>>,
            <<<<"f", "i", "n", "d", "I", "n", "d", "e", "x">>, 1>>,
            <<<<"f", "i", "n", "d", "L", "a", "s", "t">>, 1>>,
            <<<<"f", "i", "n", "d", "L", "a", "s", "t", "I", "n", "d", "e", "x">>, 1>>,
            <<<<"f", "l", "a", "t">>, 0>>,
            <<<<"f", "l", "a", "t", "M", "a", "p">>, 1>>,
            <<<<"f", "o", "r", "E", "a", "c", "h">>, 1>>,
            <<<<"i", "n", "c", "l", "u", "d", "e", "s">>, 1>>,
            <<<<"i", "n", "d", "e", "x", "O", "f">>, 1>>,
            <<<<"j", "o", "i", "n">>, 1>>,
            <<<<"k", "e", "y", "s">>, 0>>,
            <<<<"l", "a", "s", "t", "I", "n", "d", "e", "x", "O", "f">>, 1>>,
            <<<<"m", "a", "p">>, 1>>,
            <<<<"p", "o", "p">>, 0>>,
            <<<<"p", "u", "s", "h">>, 1>>,
            <<<<"r", "e", "d", "u", "c", "e">>, 1>>,
            <<<<"r", "e", "d", "u", "c", "e", "R", "i", "g", "h", "t">>, 1>>,
            <<<<"r", "e", "v", "e", "r", "s", "e">>, 0>>,
            <<<<"s", "h", "i", "f", "t">>, 0>>,
            <<<<"s", "l", "i", "c", "e">>, 2>>,
            <<<<"s", "o", "m", "e">>, 1>>,
            <<<<"s", "o", "r", "t">>, 1>>,
            <<<<"s", "p", "l", "i", "c", "e">>, 2>>,
            <<<<"t", "o", "L", "o", "c", "a", "l", "e", "S", "t", "r", "i", "n", "g">>, 0>>,
            <<<<"t", "o", "R", "e", "v", "e", "r", "s", "e", "d">>, 0>>,
            <<<<"t", "o", "S", "o", "r", "t", "e", "d">>, 1>>,
            <<<<"t", "o", "S", "p", "l", "i", "c", "e", "d">>, 2>>,
            <<<<"t", "o", "S", "t", "r", "i", "n", "g">>, 0>>,
            <<<<"u", "n", "s", "h", "i", "f", "t">>, 1>>,
            <<<<"v", "a", "l", "u", "e", "s">>, 0>>,
            <<<<"w", "i", "t", "h">>, 2>> }) @@ ObjectChain

\* trimLeft and trimRight are the functions trimStart and trimEnd.
StringChain ==
  Methods(<<"S", "t", "r", "i", "n", "g">>,
          { <<<<"a", "n", "c", "h", "o", "r">>, 1>>,
            <<<<"a", "t">>, 1>>,
            <<<<"b", "i", "g">>, 0>>,
            <<<<"b", "l", "i", "n", "k">>, 0>>,
            <<<<"b", "o", "l", "d">>, 0>>,
            <<<<"c", "h", "a", "r", "A", "t">>, 1>>,
            <<<<"c", "h", "a", "r", "C", "o", "d", "e", "A", "t">>, 1>>,
            <<<<"c", "o", "d", "e", "P", "o", "i", "n", "t", "A", "t">>, 1>>,
            <<<<"c", "o", "n", "c", "a", "t">>, 1>>,
            <<<<"e", "n", "d", "s", "W", "i", "t", "h">>, 1>>,
            <<<<"f", "i", "x", "e", "d">>, 0>>,
            <<<<"f", "o", "n", "t", "c", "o", "l", "o", "r">>, 1>>,
            <<<<"f", "o", "n", "t", "s", "i", "z", "e">>, 1>>,
            <<<<"i", "n", "c", "l", "u", "d", "e", "s">>, 1>>,
            <<<<"i", "n", "d", "e", "x", "O", "f">>, 1>>,
            <<<<"i", "s", "W", "e", "l", "l", "F", "o", "r", "m", "e", "d">>, 0>>,
            <<<<"i", "t", "a", "l", "i", "c", "s">>, 0>>,
            <<<<"l", "a", "s", "t", "I", "n", "d", "e", "x", "O", "f">>, 1>>,
            <<<<"l", "i", "n", "k">>, 1>>,
            <<<<"l", "o", "c", "a", "l", "e", "C", "o", "m", "p", "a", "r", "e">>, 1>>,
            <<<<"m", "a", "t", "c", "h">>, 1>>,
            <<<<"m", "a", "t", "c", "h", "A", "l", "l">>, 1>>,
            <<<<"n", "o", "r", "m", "a", "l", "i", "z", "e">>, 0>>,
            <<<<"p", "a", "d", "E", "n", "d">>, 1>>,
            <<<<"p", "a", "d", "S", "t", "a", "r", "t">>, 1>>,
            <<<<"r", "e", "p", "e", "a", "t">>, 1>>,
            <<<<"r", "e", "p", "l", "a", "c", "e">>, 2>>,
            <<<<"r", "e", "p", "l", "a", "c", "e", "A", "l", "l">>, 2>>,
            <<<<"s", "e", "a", "r", "c", "h">>, 1>>,
            <<<<"s", "l", "i", "c", "e">>, 2>>,
            <<<<"s", "m", "a", "l", "l">>, 0>>,
            <<<<"s", "p", "l", "i", "t">>, 2>>,
            <<<<"s", "t", "a", "r", "t", "s", "W", "i", "t", "h">>, 1>>,
            <<<<"s", "t", "r", "i", "k", "e">>, 0>>,
            <<<<"s", "u", "b">>, 0>>,
            <<<<"s", "u", "b", "s", "t", "r">>, 2>>,
            <<<<"s", "u", "b", "s", "t", "r", "i", "n", "g">>, 2>>,
            <<<<"s", "u", "p">>, 0>>,
            <<<<"t", "o", "L", "o", "c", "a", "l", "e", "L", "o", "w", "e", "r", "C", "a", "s", "e">>, 0>>,
            <<<<"t", "o", "L", "o", "c", "a", "l", "e", "U", "p", "p", "e", "r", "C", "a", "s", "e">>, 0>>,
            <<<<"t", "o", "L", "o", "w", "e", "r", "C", "a", "s", "e">>, 0>>,
            <<<<"t", "o", "S", "t", "r", "i", "n", "g">>, 0>>,
            <<<<"t", "o", "U", "p", "p", "e", "r", "C", "a", "s", "e">>, 0>>,
            <<<<"t", "o", "W", "e", "l", "l", "F", "o", "r", "m", "e", "d">>, 0>>,
            <<<<"t", "r", "i", "m">>, 0>>,
            <<<<"t", "r", "i", "m", "E", "n", "d">>, 0>>,
            <<<<"t", "r", "i", "m", "S", "t", "a", "r", "t">>, 0>>,
            <<<<"v", "a", "l", "u", "e", "O", "f">>, 0>> })
    @@ ("trimLeft" :> Fn(<<"t", "r", "i", "m", "S", "t", "a", "r", "t">>, 0))
    @@ ("trimRight" :> Fn(<<"t", "r", "i", "m", "E", "n", "d">>, 0))
    @@ ObjectChain

NumberChain ==
  Methods(<<"N", "u", "m", "b", "e", "r">>,
          { <<<<"t", "o", "E", "x", "p", "o", "n", "e", "n", "t", "i", "a", "l">>, 1>>,
            <<<<"t", "o", "F", "i", "x", "e", "d">>, 1>>,
            <<<<"t", "o", "L", "o", "c", "a", "l", "e", "S", "t", "r", "i", "n", "g">>, 0>>,
            <<<<"t", "o", "P", "r", "e", "c", "i", "s", "i", "o", "n">>, 1>>,
            <<<<"t", "o", "S", "t", "r", "i", "n", "g">>, 1>>,
            <<<<"v", "a", "l", "u", "e", "O", "f">>, 0>> }) @@ ObjectChain

BooleanChain ==
  Methods(<<"B", "o", "o", "l", "e", "a", "n">>,
          { <<<<"t", "o", "S", "t", "r", "i", "n", "g">>, 0>>,
            <<<<"v", "a", "l", "u", "e", "O", "f">>, 0>> }) @@ ObjectChain

FunctionChain ==
  Methods(<<"F", "u", "n", "c", "t", "i", "o", "n">>,
          { <<<<"a", "p", "p", "l", "y">>, 2>>,
            <<<<"b", "i", "n", "d">>, 1>>,
            <<<<"c", "a", "l", "l">>, 1>>,
            <<<<"t", "o", "S", "t", "r", "i", "n", "g">>, 0>> }) @@ ObjectChain

\* The prototype chain of every kind of value but null and undefined.
Prototypes ==
  [t \in {"obj", "arr", "str", "text", "num", "nan", "inf", "bool", "function"} |->
     IF t = "arr" THEN ArrayChain
     ELSE IF t \in {"str", "text"} THEN StringChain
     ELSE IF t \in {"num", "nan", "inf"} THEN NumberChain
     ELSE IF t = "bool" THEN BooleanChain
     ELSE IF t = "function" THEN FunctionChain
     ELSE ObjectChain]

PrototypeKeys == [t \in DOMAIN Prototypes |-> DOMAIN Prototypes[t]]

\* What a value but null and undefined inherits through its prototype chain,
\* by key; every such property holds a function.
Inherited(o) == Prototypes[o.t]

InheritedKeys(o) == PrototypeKeys[o.t]

RECURSIVE IndexKey(_)
\* The property key of an array index.
IndexKey(i) == IF i < 10 THEN DigitChars[i + 1]
               ELSE IndexKey(i \div 10) \o DigitChars[(i % 10) + 1]

\* The own enumerable properties of a value, as Object.entries lists them: an
\* object's fields, an array's elements and a string's characters by index,
\* nothing for other values.
OwnEntries(x) ==
  IF x.t = "obj" THEN x.f
  ELSE IF x.t = "arr"
    THEN [k \in {IndexKey(i - 1) : i \in 1..Len(x.a)} |->
            x.a[CHOOSE i \in 1..Len(x.a) : IndexKey(i - 1) = k]]
  ELSE IF x.t = "str"
    THEN [k \in {IndexKey(i - 1) : i \in 1..Len(x.s)} |->
            Str(<<x.s[CHOOSE i \in 1..Len(x.s) : IndexKey(i - 1) = k]>>)]
  ELSE EmptyFields

\* The own properties of a function that are not enumerable: reading
\* arguments or caller of a built-in function throws.
FunctionKeys == {"length", "name", "arguments", "caller"}

\* o.key (and o[i] with key the index): a TypeError on null and undefined,
\* the own property, else length, else what the prototype chain provides.
\* A throw read from is handed on.
Prop(o, key) ==
  IF IsThrow(o) THEN o
  ELSE IF o.t \in {"null", "undefined"} THEN Throw(MsgTypeError)
  ELSE IF key \in DOMAIN OwnEntries(o) THEN OwnEntries(o)[key]
  ELSE IF o.t = "arr" /\ key = "length" THEN Num(FALSE, DigitsOf(Len(o.a)), <<>>)
  ELSE IF o.t = "str" /\ key = "length" THEN Num(FALSE, DigitsOf(Len(o.s)), <<>>)
  ELSE IF o.t = "function" /\ key = "length" THEN Num(FALSE, DigitsOf(o.length), <<>>)
  ELSE IF o.t = "function" /\ key = "name" THEN Str(o.name)
  ELSE IF o.t = "function" /\ key \in FunctionKeys THEN Throw(MsgTypeError)
  ELSE IF key = "__proto__" THEN Obj(EmptyFields)
  ELSE IF key \in InheritedKeys(o) THEN Inherited(o)[key]
  ELSE Undefined

\* key in o, for o an object, an array or a function.
In(key, o) ==
  key \in DOMAIN OwnEntries(o) \/ key \in InheritedKeys(o) \/ key = "__proto__"
    \/ (o.t = "arr" /\ key = "length")
    \/ (o.t = "function" /\ key \in FunctionKeys)

\* Whether "in" may be applied to o: anything else makes it throw.
IsObject(o) == o.t \in {"obj", "arr", "function"}

\* o.key || fallback: the fallback also when the property is there and falsy.
OrElse(o, key, fallback) ==
  LET Or(v) == IF IsThrow(v) THEN v ELSE IF Truthy(v) THEN v ELSE fallback
  IN Or(Prop(o, key))

(* ------------------------------------------------------------------ *)
(* The Firestore value codec                                           *)
(* ------------------------------------------------------------------ *)

\* Object.entries / fields[key] = ...: an assignment to the key "__proto__"
\* sets the prototype and creates no own property.
OwnKeysAfterAssign(keys) == keys \ {"__proto__"}

\* An object whose fields were written in the order ks.  The order of its
\* keys is what Object.entries goes by; an object carries it where the code
\* can tell one order from another, and is a plain map of its fields where
\* it cannot.
Ordered(ks, f) == [t |-> "obj", f |-> f, ks |-> ks]

\* The errors among the results of a loop over the entries of an object.
Thrown(results) == { results[k] : k \in { x \in DOMAIN results : IsThrow(results[x]) } }

\* for (const [key, val] of Object.entries(obj)) ...: the loop ends on the
\* first entry whose conversion throws.  When every entry that throws gives
\* the same error the order of the entries does not show, and that error is
\* the one thrown; when they differ it is the error of the first in the
\* order obj carries.
FirstThrown(obj, results) ==
  IF "ks" \in DOMAIN obj
  THEN results[obj.ks[CHOOSE i \in 1..Len(obj.ks) :
                        /\ IsThrow(results[obj.ks[i]])
                        /\ \A h \in 1..(i - 1) : ~IsThrow(results[obj.ks[h]])]]
  ELSE CHOOSE e \in Thrown(results) : TRUE

FirstThrow(vs) == vs[CHOOSE i \in 1..Len(vs) : IsThrow(vs[i]) /\ \A j \in 1..(i - 1) : ~IsThrow(vs[j])]

AnyThrow(vs) == \E i \in 1..Len(vs) : IsThrow(vs[i])

\* "Unsupported Firestore value: " + typeof val
UnsupportedMsg(val) == Str(<<"U", "n", "s", "u", "p", "p", "o", "r", "t", "e", "d", " ", "F", "i", "r", "e", "s", "t", "o", "r", "e", " ", "v", "a", "l", "u", "e", ":", " ">> \o (IF val.t = "undefined" THEN <<"u", "n", "d", "e", "f", "i", "n", "e", "d">> ELSE <<"f", "u", "n", "c", "t", "i", "o", "n">>))

\* typeof val === 'string': the texts of chat messages are strings too.
IsString(v) == v.t \in {"str", "text"}

\* typeof val === 'number'
IsNumber(val) == val.t \in {"num", "nan", "inf"}

RECURSIVE toValue(_)
RECURSIVE toFirestoreFields(_)
\* toFirestoreFields(obj): the object of the encoded own fields of obj;
\* Object.entries throws on null and undefined.
toFirestoreFields(obj) ==
  LET Fields(enc) ==
        IF Thrown(enc) = {} THEN Obj([k \in OwnKeysAfterAssign(DOMAIN enc) |-> enc[k]])
        ELSE FirstThrown(obj, enc)
      Entries(es) == Fields([k \in DOMAIN es |-> toValue(es[k])])
  IN IF obj.t \in {"null", "undefined"} THEN Throw(MsgTypeError)
     ELSE Entries(OwnEntries(obj))

\* toValue with val == null in place of val === null: undefined passes as null.
toValueLooseNull(val) ==
  IF val.t \in {"null", "undefined"} THEN Obj([nullValue |-> Null])
  ELSE IF IsString(val) THEN Obj([stringValue |-> val])
  ELSE IF IsNumber(val) THEN Obj([integerValue |-> val])
  ELSE IF val.t = "bool" THEN Obj([booleanValue |-> val])
  ELSE IF val.t = "arr"
    THEN LET vs == [i \in 1..Len(val.a) |-> toValue(val.a[i])]
         IN IF AnyThrow(vs) THEN FirstThrow(vs)
            ELSE Obj([arrayValue |-> Obj([values |-> Arr(vs)])])
  ELSE IF val.t = "obj"
    THEN LET fs == toFirestoreFields(val)
         IN IF IsThrow(fs) THEN fs ELSE Obj([mapValue |-> Obj([fields |-> fs])])
  ELSE Throw(UnsupportedMsg(val))

toValue(val) ==
  IF val.t = "null" THEN Obj([nullValue |-> Null])
  ELSE IF IsString(val) THEN Obj([stringValue |-> val])
  ELSE IF IsNumber(val) THEN Obj([integerValue |-> val])
  ELSE IF val.t = "bool" THEN Obj([booleanValue |-> val])
  ELSE IF val.t = "arr"
    THEN LET vs == [i \in 1..Len(val.a) |-> toValue(val.a[i])]
         IN IF AnyThrow(vs) THEN FirstThrow(vs)
            ELSE Obj([arrayValue |-> Obj([values |-> Arr(vs)])])
  ELSE IF val.t = "obj"
    THEN LET fs == toFirestoreFields(val)
         IN IF IsThrow(fs) THEN fs ELSE Obj([mapValue |-> Obj([fields |-> fs])])
  ELSE Throw(UnsupportedMsg(val))

RECURSIVE fromValue(_)
RECURSIVE fromFirestoreFields(_)
\* fromFirestoreFields(fields): the object of the decoded own fields;
\* Object.entries throws on null and undefined.
fromFirestoreFields(fields) ==
  LET Decoded(dec) ==
        IF Thrown(dec) = {} THEN Obj([k \in OwnKeysAfterAssign(DOMAIN dec) |-> dec[k]])
        ELSE FirstThrown(fields, dec)
      Entries(es) == Decoded([k \in DOMAIN es |-> fromValue(es[k])])
  IN IF IsThrow(fields) THEN fields
     ELSE IF fields.t \in {"null", "undefined"} THEN Throw(MsgTypeError)
     ELSE Entries(OwnEntries(fields))

\* fromValue(val): the first tag present, in the order the code tests them;
\* "in" throws when val is no object, .map when values is no array.
fromValue(val) ==
  LET Mapped(vs) == IF AnyThrow(vs) THEN FirstThrow(vs) ELSE Arr(vs)
      Map(xs) ==
        IF IsThrow(xs) THEN xs
        ELSE IF xs.t # "arr" THEN Throw(MsgTypeError)
        ELSE Mapped([i \in 1..Len(xs.a) |-> fromValue(xs.a[i])])
  IN IF ~IsObject(val) THEN Throw(MsgTypeError)
     ELSE IF In("stringValue", val) THEN Prop(val, "stringValue")
     ELSE IF In("integerValue", val) THEN ParseInt(Prop(val, "integerValue"))
     ELSE IF In("booleanValue", val) THEN Prop(val, "booleanValue")
     ELSE IF In("nullValue", val) THEN Null
     ELSE IF In("arrayValue", val)
       THEN Map(OrElse(Prop(val, "arrayValue"), "values", Arr(<<>>)))
     ELSE IF In("mapValue", val)
       THEN fromFirestoreFields(OrElse(Prop(val, "mapValue"), "fields", Obj(EmptyFields)))
     ELSE Null

(* ------------------------------------------------------------------ *)
(* Values the codec is exercised on                                    *)
(* ------------------------------------------------------------------ *)

\* The longest list and the deepest nesting of the values drawn.
MaxLen == 2

\* 10^21, the least integer Number::toString writes in exponent notation.
TenPow21 == Num(FALSE, <<1>> \o [i \in 1..MaxPlainDigits |-> 0], <<>>)

\* 10^20, the largest power of ten written out in full.
TenPow20 == Num(FALSE, <<1>> \o [i \in 1..(MaxPlainDigits - 1) |-> 0], <<>>)

CodecAtoms ==
  { Null, Bool(TRUE), Bool(FALSE), Str(<<>>), Str(<<"a">>), Str(<<"4", "2">>),
    JsInt(0), JsInt(3), JsInt(-7), JsInt(42), TenPow20, TenPow21 }

CodecKeys == {"a", "stringValue", "__proto__"}

SeqsUpTo(S, n) == UNION { [1..k -> S] : k \in 0..n }

MapsOver(K, S) == UNION { [D -> S] : D \in SUBSET K }

\* Lists and maps of atoms, and lists and maps of those.
CodecFlat ==
  CodecAtoms \cup { Arr(xs) : xs \in SeqsUpTo(CodecAtoms, MaxLen) }

CodecNested ==
  { Null, JsInt(3), TenPow21, Str(<<"a">>), Arr(<<>>), Obj(EmptyFields),
    Arr(<<Null>>), Arr(<<JsInt(3), Str(<<>>)>>), Obj([a |-> Null]),
    Obj([a |-> Arr(<<>>)]), Obj([stringValue |-> JsInt(3)]) }

CodecValues ==
  CodecFlat
    \cup { Arr(xs) : xs \in SeqsUpTo(CodecNested, MaxLen) }
    \cup { Obj(f) : f \in MapsOver(CodecKeys, CodecNested) }

\* 2.5, a number with a fractional part.
TwoAndHalf == Num(FALSE, <<2>>, <<5>>)

\* Values toValue is not meant for, at top level and inside lists and maps.
CodecUnsupported ==
  { Undefined, TwoAndHalf, NaN,
    Arr(<<Undefined>>), Arr(<<JsInt(3), Undefined>>), Arr(<<TwoAndHalf>>),
    Arr(<<Obj([a |-> Undefined])>>),
    Obj([a |-> Undefined]), Obj([a |-> TwoAndHalf]), Obj([a |-> Arr(<<Undefined>>)]),
    Obj([a |-> JsInt(3), stringValue |-> Undefined]),
    Infinity(FALSE), Arr(<<Infinity(TRUE)>>),
    Fn(<<"f">>, 0), Obj([a |-> Fn(<<"f">>, 0)]),
    Ordered(<<"a", "b">>, [a |-> Undefined, b |-> Fn(<<"f">>, 0)]),
    Ordered(<<"b", "a">>, [a |-> Undefined, b |-> Fn(<<"f">>, 0)]) }

(* ------------------------------------------------------------------ *)
(* Strings of the program                                              *)
(* ------------------------------------------------------------------ *)

Processing == Str(<<"p", "r", "o", "c", "e", "s", "s", "i", "n", "g">>)

Completed == Str(<<"c", "o", "m", "p", "l", "e", "t", "e", "d">>)

Failed == Str(<<"f", "a", "i", "l", "e", "d">>)

\* "Failed to get Firestore access token"
MsgTokenFailed == Str(<<"F", "a", "i", "l", "e", "d", " ", "t", "o", " ", "g", "e", "t", " ", "F", "i", "r", "e", "s", "t", "o", "r", "e", " ", "a", "c", "c", "e", "s", "s", " ", "t", "o", "k", "e", "n">>)

\* "Document not found"
MsgDocNotFound == Str(<<"D", "o", "c", "u", "m", "e", "n", "t", " ", "n", "o", "t", " ", "f", "o", "u", "n", "d">>)

\* "OpenAI API error"
MsgOpenAI == Str(<<"O", "p", "e", "n", "A", "I", " ", "A", "P", "I", " ", "e", "r", "r", "o", "r">>)

\* The message of the error a rejected fetch carries (a network failure).
MsgFetchFailed == Str(<<"f", "e", "t", "c", "h", " ", "f", "a", "i", "l", "e", "d">>)

\* The message of the SyntaxError of JSON.parse / Response.json.
MsgSyntaxError == Str(<<"S", "y", "n", "t", "a", "x", "E", "r", "r", "o", "r">>)

\* The message of a ZodError.
MsgZodError == Str(<<"Z", "o", "d", "E", "r", "r", "o", "r">>)

Paris == Str(<<"P", "a", "r", "i", "s">>)

\* new Date().toISOString() at the three places the code reads the clock: each
\* reading is a distinct instant, later ones after earlier ones.
CreatedAtOf(j) == Str(<<"T", DigitChar(j), "a">>)

CompletedAtOk(j) == Str(<<"T", DigitChar(j), "b">>)

CompletedAtFail(j) == Str(<<"T", DigitChar(j), "c">>)

\* crypto.randomUUID() of the j-th request, as a string.
UuidOf(j) == Str(<<"u", DigitChar(j)>>)

(* ------------------------------------------------------------------ *)
(* getFirestoreAccessToken                                             *)
(* ------------------------------------------------------------------ *)

\* A fetch that rejects (a network failure) instead of resolving to a response.
Rejected == [kind |-> "reject"]

\* The token endpoint's answers to one exchange: the token tok, a JSON error
\* body without access_token, the JSON body null, or a network failure.
MintResponses(tok) ==
  { Rejected,
    [kind |-> "http", json |-> Obj([access_token |-> tok])],
    [kind |-> "http", json |-> Obj([error |-> Str(<<"i", "n", "v", "a", "l", "i", "d">>)])],
    [kind |-> "http", json |-> Null] }

\* getFirestoreAccessToken without its check of data.access_token.
getFirestoreAccessTokenUnchecked(tokenRes) ==
  IF tokenRes.kind = "reject" THEN Throw(MsgFetchFailed)
  ELSE Prop(tokenRes.json, "access_token")

\* The access token the exchange tokenRes yields, or the error thrown.
getFirestoreAccessToken(tokenRes) ==
  IF tokenRes.kind = "reject" THEN Throw(MsgFetchFailed)
  ELSE LET Checked(access_token) ==
             IF IsThrow(access_token) THEN access_token
             ELSE IF ~Truthy(access_token) THEN Throw(MsgTokenFailed)
             ELSE access_token
       IN Checked(Prop(tokenRes.json, "access_token"))

\* The token minted for job j, and for the status request invocation g serves.
PostToken(j) == Str(<<"k", "p", DigitChar(j)>>)

GetToken(g) == Str(<<"k", "g", DigitChar(g)>>)

(* ------------------------------------------------------------------ *)
(* callLLM and the schema                                              *)
(* ------------------------------------------------------------------ *)

\* The text of a chat message, by what JSON.parse makes of it.
JsonText(v) == [t |-> "text", parses |-> TRUE, value |-> v]

NotJsonText == [t |-> "text", parses |-> FALSE, value |-> Undefined]

\* The characters U+0020 to U+007E, in order; U+0060, which no string of
\* this module can hold, as the text of its escape.
AsciiChars ==
  <<" ", "!", "\"", "#", "$", "%", "&", "'", "(", ")", "*", "+", ",", "-",
    ".", "/", "0", "1", "2", "3", "4", "5", "6", "7", "8", "9", ":", ";",
    "<", "=", ">", "?", "@", "A", "B", "C", "D", "E", "F", "G", "H", "I",
    "J", "K", "L", "M", "N", "O", "P", "Q", "R", "S", "T", "U", "V", "W",
    "X", "Y", "Z", "[", "\\", "]", "^", "_", "\\u0060", "a", "b", "c", "d", "e",
    "f", "g", "h", "i", "j", "k", "l", "m", "n", "o", "p", "q", "r", "s",
    "t", "u", "v", "w", "x", "y", "z", "{", "|", "}", "~">>

\* JSON white space.
IsJsonWs(c) == c \in {" ", "\t", "\n", "\r"}

SkipJsonWs(cs) == SubSeq(cs, PrefixLen(cs, IsJsonWs) + 1, Len(cs))

StartsWith(cs, lit) == Len(cs) >= Len(lit) /\ SubSeq(cs, 1, Len(lit)) = lit


\* What a parser hands on: the value v read and the characters left, or a
\* failure.
Parsed(v, rest) == [ok |-> TRUE, v |-> v, rest |-> rest]

NoParse == [ok |-> FALSE, v |-> Undefined, rest |-> <<>>]

\* The character of the code unit with hexadecimal digits hs: itself from
\* U+0020 to U+007E, for tab, line feed, form feed and carriage return and
\* for U+000B, U+00A0, U+FEFF and U+1680, and otherwise the text of its
\* escape.
CodeUnit(hs) ==
  LET n == ((hs[1] * 16 + hs[2]) * 16 + hs[3]) * 16 + hs[4]
  IN IF n >= 32 /\ n <= 126 THEN AsciiChars[n - 31]
     ELSE IF n = 9 THEN "\t" ELSE IF n = 10 THEN "\n"
     ELSE IF n = 12 THEN "\f" ELSE IF n = 13 THEN "\r"
     ELSE IF n = 11 THEN "" ELSE IF n = 160 THEN " "
     ELSE IF n = 65279 THEN "﻿" ELSE IF n = 5760 THEN " "
     ELSE "\\u" \o KeyOf([i \in 1..4 |-> HexChars[hs[i] + 1]])

\* The control characters U+0000 to U+001F: JSON.parse takes none of them
\* unescaped inside a string.
ControlChars == { CodeUnit(<<0, 0, a, b>>) : a \in 0..1, b \in 0..15 }

\* A character that stands for itself inside a JSON string.
IsPlainChar(c) == c \notin {"\"", "\\"} \cup ControlChars

\* The escape cs begins with (after the backslash): its character and its
\* length, or length 0 when it is none.
JsonEscape(cs) ==
  IF cs = <<>> THEN [c |-> "", n |-> 0]
  ELSE IF cs[1] \in {"\"", "\\", "/"} THEN [c |-> cs[1], n |-> 1]
  ELSE IF cs[1] = "n" THEN [c |-> "\n", n |-> 1]
  ELSE IF cs[1] = "t" THEN [c |-> "\t", n |-> 1]
  ELSE IF cs[1] = "r" THEN [c |-> "\r", n |-> 1]
  ELSE IF cs[1] = "f" THEN [c |-> "\f", n |-> 1]
  ELSE IF cs[1] = "b" THEN [c |-> CodeUnit(<<0, 0, 0, 8>>), n |-> 1]
  ELSE IF cs[1] = "u" /\ Len(cs) >= 5 /\ \A i \in 2..5 : IsHexChar(cs[i])
    THEN [c |-> CodeUnit([i \in 1..4 |-> HexDigit(cs[i + 1])]), n |-> 5]
  ELSE [c |-> "", n |-> 0]

RECURSIVE JsonString(_, _)
\* The rest of a JSON string after its opening quote, acc read so far.
JsonString(cs, acc) ==
  LET Escaped(text, rest, esc) ==
        IF esc.n > 0 THEN JsonString(SubSeq(rest, esc.n + 1, Len(rest)), text \o <<esc.c>>)
        ELSE NoParse
      After(text, c, rest) ==
        IF c = "\"" THEN Parsed(Str(text), rest)
        ELSE IF c = "\\" THEN Escaped(text, rest, JsonEscape(rest))
        ELSE NoParse
      At(n) ==
        IF n = Len(cs) THEN NoParse
        ELSE After(acc \o SubSeq(cs, 1, n), cs[n + 1], SubSeq(cs, n + 2, Len(cs)))
  IN At(PrefixLen(cs, IsPlainChar))

RECURSIVE DigitsValue(_)
\* The number a few decimal digits denote.
DigitsValue(ds) ==
  IF ds = <<>> THEN 0
  ELSE DigitsValue(SubSeq(ds, 1, Len(ds) - 1)) * 10 + ds[Len(ds)]

\* The most digits of an exponent that are read: a string is shorter than
\* 2^29 characters and a numeral has fewer digits, so that with an exponent
\* of ten digits or more it denotes 0 or Infinity, as with 10^9.
MaxExpDigits == 9

\* A JSON number: -? int frac? exp?, with its value as a Number.  The parts
\* are read one after the other, each from what the one before left.
JsonNumber(cs) ==
  LET Sign ==
        [neg |-> cs[1] = "-", rest |-> IF cs[1] = "-" THEN Tail(cs) ELSE cs]
      IntDigits(p) ==
        LET ds == IF p.rest # <<>> /\ p.rest[1] = "0" THEN <<0>> ELSE DigitPrefix(p.rest)
        IN [neg |-> p.neg, int |-> ds, rest |-> SubSeq(p.rest, Len(ds) + 1, Len(p.rest))]
      FracDigits(p, ds) ==
        [neg |-> p.neg, int |-> p.int, dot |-> TRUE, frac |-> ds,
         rest |-> SubSeq(p.rest, Len(ds) + 2, Len(p.rest))]
      Frac(p) ==
        IF p.rest # <<>> /\ p.rest[1] = "." THEN FracDigits(p, DigitPrefix(Tail(p.rest)))
        ELSE [neg |-> p.neg, int |-> p.int, dot |-> FALSE, frac |-> <<>>, rest |-> p.rest]
      ExpDigits(p, eneg, s, eds) ==
        [neg |-> p.neg, int |-> p.int, dot |-> p.dot, frac |-> p.frac, hasE |-> TRUE,
         eneg |-> eneg, eds |-> eds, rest |-> SubSeq(s, Len(eds) + 1, Len(s))]
      ExpSigned(p, eneg, s) == ExpDigits(p, eneg, s, DigitPrefix(s))
      ExpSign(p, s) ==
        ExpSigned(p, s # <<>> /\ s[1] = "-",
                  IF s # <<>> /\ s[1] \in {"-", "+"} THEN Tail(s) ELSE s)
      Exp(p) ==
        IF p.rest # <<>> /\ p.rest[1] \in {"e", "E"} THEN ExpSign(p, Tail(p.rest))
        ELSE [neg |-> p.neg, int |-> p.int, dot |-> p.dot, frac |-> p.frac, hasE |-> FALSE,
              eneg |-> FALSE, eds |-> <<>>, rest |-> p.rest]
      Magnitude(e) == IF Len(e) > MaxExpDigits THEN 10 ^ MaxExpDigits ELSE DigitsValue(e)
      Exponent(p) ==
        IF ~p.hasE THEN 0
        ELSE IF p.eneg THEN -Magnitude(StripLeadingZeros(p.eds))
        ELSE Magnitude(StripLeadingZeros(p.eds))
      End(p) ==
        IF p.int = <<>> \/ (p.dot /\ p.frac = <<>>) \/ (p.hasE /\ p.eds = <<>>) THEN NoParse
        ELSE Parsed(DecimalNumber(p.neg, p.int \o p.frac, Exponent(p) - Len(p.frac)),
                    p.rest)
  IN End(Exp(Frac(IntDigits(Sign))))

RECURSIVE JsonValue(_)
RECURSIVE JsonElements(_, _)
RECURSIVE JsonMembers(_, _)
\* The elements of a JSON array after "[" or ",", acc read so far.
JsonElements(cs, acc) ==
  LET Then(vs, rest) ==
        IF rest = <<>> THEN NoParse
        ELSE IF rest[1] = "]" THEN Parsed(Arr(vs), Tail(rest))
        ELSE IF rest[1] = "," THEN JsonElements(Tail(rest), vs)
        ELSE NoParse
      After(el) == IF ~el.ok THEN NoParse ELSE Then(acc \o <<el.v>>, SkipJsonWs(el.rest))
  IN After(JsonValue(cs))

\* The members of a JSON object after "{" or ",", acc read so far; a key
\* that comes again replaces the earlier one.
JsonMembers(cs, acc) ==
  LET Then(more, rest) ==
        IF rest = <<>> THEN NoParse
        ELSE IF rest[1] = "}" THEN Parsed(Obj(more), Tail(rest))
        ELSE IF rest[1] = "," THEN JsonMembers(Tail(rest), more)
        ELSE NoParse
      Member(k, el) ==
        IF ~el.ok THEN NoParse
        ELSE Then([x \in DOMAIN acc \cup {k} |-> IF x = k THEN el.v ELSE acc[x]],
                  SkipJsonWs(el.rest))
      Colon(k, s) ==
        IF s # <<>> /\ s[1] = ":" THEN Member(k, JsonValue(Tail(s))) ELSE NoParse
      Key(key) == IF ~key.ok THEN NoParse ELSE Colon(KeyOf(key.v.s), SkipJsonWs(key.rest))
      Quote(s) == IF s # <<>> /\ s[1] = "\"" THEN Key(JsonString(Tail(s), <<>>)) ELSE NoParse
  IN Quote(SkipJsonWs(cs))

\* The JSON value cs0 begins with, after white space.
JsonValue(cs0) ==
  LET Open(close, in, empty) ==
        IF in # <<>> /\ in[1] = close THEN Parsed(empty, Tail(in))
        ELSE IF close = "]" THEN JsonElements(in, <<>>)
        ELSE JsonMembers(in, EmptyFields)
      At(cs) ==
        IF cs = <<>> THEN NoParse
        ELSE IF StartsWith(cs, <<"n", "u", "l", "l">>) THEN Parsed(Null, SubSeq(cs, 5, Len(cs)))
        ELSE IF StartsWith(cs, <<"t", "r", "u", "e">>)
          THEN Parsed(Bool(TRUE), SubSeq(cs, 5, Len(cs)))
        ELSE IF StartsWith(cs, <<"f", "a", "l", "s", "e">>)
          THEN Parsed(Bool(FALSE), SubSeq(cs, 6, Len(cs)))
        ELSE IF cs[1] = "\"" THEN JsonString(Tail(cs), <<>>)
        ELSE IF cs[1] = "[" THEN Open("]", SkipJsonWs(Tail(cs)), Arr(<<>>))
        ELSE IF cs[1] = "{" THEN Open("}", SkipJsonWs(Tail(cs)), Obj(EmptyFields))
        ELSE IF cs[1] = "-" \/ IsDigitChar(cs[1]) THEN JsonNumber(cs)
        ELSE NoParse
  IN At(SkipJsonWs(cs0))

\* JSON.parse on the characters of a string: the one value they spell, or a
\* SyntaxError.
JsonParseChars(cs) ==
  LET Whole(r) == IF r.ok /\ SkipJsonWs(r.rest) = <<>> THEN r.v ELSE Throw(MsgSyntaxError)
  IN Whole(JsonValue(cs))

\* JSON.parse(x): the text's value; any other value is converted to a string
\* first (ToString) and that string parsed.
JSONParse(x) ==
  IF IsThrow(x) THEN x
  ELSE IF x.t = "text" THEN (IF x.parses THEN x.value ELSE Throw(MsgSyntaxError))
  ELSE LET Parse(string) == IF IsThrow(string) THEN string ELSE JsonParseChars(string.s)
       IN Parse(JsToString(x))

\* A 200 answer of the completion API whose first choice carries content.
Completion(content) ==
  [kind |-> "http", ok |-> TRUE,
   json |-> Obj([choices |-> Arr(<<Obj([message |-> Obj([content |-> content])])>>)])]

\* A 200 answer with the JSON body json.
Answer(json) == [kind |-> "http", ok |-> TRUE, json |-> json]

\* A non-2xx answer with the JSON body json.
ApiError(json) == [kind |-> "http", ok |-> FALSE, json |-> json]

\* What the template of the prompt inserts: `${durationDays}` and then
\* `${destination}`, each converted to a string, or the TypeError of the first
\* that has no primitive value.  The rest of the prompt is fixed text.
Prompt(destination, durationDays) ==
  LET Filled(days, place) ==
        IF IsThrow(days) THEN days
        ELSE IF IsThrow(place) THEN place
        ELSE [t |-> "prompt", durationDays |-> days, destination |-> place]
  IN Filled(JsToString(durationDays), JsToString(destination))

\* callLLM(destination, durationDays, apiKey) on the answer res of the fetch:
\* the value returned, or the error thrown.  The prompt is built before the
\* fetch: when that throws, no request is sent and res is not looked at.
\* json.error?.message is read only when json.error is neither null nor
\* undefined, and new Error(m) converts m to a string.
callLLM(destination, durationDays, res) ==
  LET Failure(m) ==
        IF IsThrow(m) THEN m
        ELSE IF ~Truthy(m) THEN Throw(MsgOpenAI)
        ELSE IF IsThrow(JsToString(m)) THEN JsToString(m)
        ELSE Throw(JsToString(m))
      Message(error) ==
        IF IsThrow(error) THEN error
        ELSE IF error.t \in {"null", "undefined"} THEN Undefined
        ELSE Prop(error, "message")
  IN IF IsThrow(Prompt(destination, durationDays)) THEN Prompt(destination, durationDays)
     ELSE IF res.kind = "reject" THEN Throw(MsgFetchFailed)
     ELSE IF IsThrow(res.json) THEN res.json
     ELSE IF ~res.ok THEN Failure(Message(Prop(res.json, "error")))
     ELSE Prop(JSONParse(Prop(Prop(Prop(Prop(res.json, "choices"), "0"), "message"),
                              "content")),
               "itinerary")

\* z.number().int(), the sign left unchecked.
IsAnyInt(v) == v.t = "num" /\ v.frac = <<>>

\* z.number().int().positive()
IsPositiveInt(v) == v.t = "num" /\ v.frac = <<>> /\ ~v.neg /\ v.int # <<0>>

\* ActivitySchema.parse: the object cut down to the schema's keys, or a throw.
ActivitySchemaParse(v) ==
  IF v.t = "obj" /\ IsString(Prop(v, "time")) /\ IsString(Prop(v, "description"))
     /\ IsString(Prop(v, "location"))
  THEN Obj([time |-> v.f.time, description |-> v.f.description, location |-> v.f.location])
  ELSE Throw(MsgZodError)

\* DaySchema.parse
DaySchemaParse(v) ==
  IF v.t = "obj" /\ IsPositiveInt(Prop(v, "day")) /\ IsString(Prop(v, "theme"))
     /\ Prop(v, "activities").t = "arr"
  THEN LET Day(acts) ==
             IF AnyThrow(acts) THEN Throw(MsgZodError)
             ELSE Obj([day |-> v.f.day, theme |-> v.f.theme, activities |-> Arr(acts)])
       IN Day([i \in 1..Len(v.f.activities.a) |-> ActivitySchemaParse(v.f.activities.a[i])])
  ELSE Throw(MsgZodError)

\* ItinerarySchema.parse({ itinerary: raw }): the validated object, or a throw.
ItinerarySchemaParse(v) ==
  IF Prop(v, "itinerary").t = "arr"
  THEN LET Days(days) ==
             IF AnyThrow(days) THEN Throw(MsgZodError) ELSE Obj([itinerary |-> Arr(days)])
       IN Days([i \in 1..Len(v.f.itinerary.a) |-> DaySchemaParse(v.f.itinerary.a[i])])
  ELSE Throw(MsgZodError)

(* ------------------------------------------------------------------ *)
(* retryWithBackoff                                                    *)
(* ------------------------------------------------------------------ *)

\* retries = 3
Retries == 3

\* delay = 1000
Delay == 1000

\* delay * (2 ** i)
BackoffDelay(i) == Delay * (2 ^ i)

\* The loop with its last-attempt test off by one (i === retries).
RetryTurnOffByOne(i, r) ==
  IF ~IsThrow(r) THEN [do |-> "return", value |-> r]
  ELSE IF i = Retries THEN [do |-> "throw", err |-> r]
  ELSE [do |-> "wait", ms |-> BackoffDelay(i)]

\* One turn of the loop, after the call of attempt i gave r: return its value,
\* rethrow its error, or wait before the next attempt.
RetryTurn(i, r) ==
  IF ~IsThrow(r) THEN [do |-> "return", value |-> r]
  ELSE IF i = Retries - 1 THEN [do |-> "throw", err |-> r]
  ELSE [do |-> "wait", ms |-> BackoffDelay(i)]

(* ------------------------------------------------------------------ *)
(* The document store, as the REST calls of the code meet it           *)
(* ------------------------------------------------------------------ *)

NoDoc == [t |-> "nodoc"]

\* The digits of 2^63 - 1, the largest integerValue the store takes.
MaxInt64Digits == <<9, 2, 2, 3, 3, 7, 2, 0, 3, 6, 8, 5, 4, 7, 7, 5, 8, 0, 7>>

RECURSIVE DigitsLeq(_, _)
DigitsLeq(a, b) ==
  IF a = <<>> THEN TRUE
  ELSE IF a[1] # b[1] THEN a[1] < b[1]
  ELSE DigitsLeq(Tail(a), Tail(b))

\* integerValue is a 64-bit integer on the wire.
IsInt64(n) ==
  n.t = "num" /\ n.frac = <<>>
  /\ (Len(n.int) < Len(MaxInt64Digits)
      \/ (Len(n.int) = Len(MaxInt64Digits) /\ DigitsLeq(n.int, MaxInt64Digits)))

\* Whether the store takes the JSON body { fields } of a create or patch.
RECURSIVE WireValueOk(_)
WireFieldsOk(fields) == \A k \in DOMAIN fields.f : WireValueOk(fields.f[k])

WireValueOk(val) ==
  IF "integerValue" \in DOMAIN val.f THEN IsInt64(val.f.integerValue)
  ELSE IF "arrayValue" \in DOMAIN val.f
    THEN \A i \in 1..Len(val.f.arrayValue.f.values.a) : WireValueOk(val.f.arrayValue.f.values.a[i])
  ELSE IF "mapValue" \in DOMAIN val.f
    THEN \A k \in DOMAIN val.f.mapValue.f.fields.f : WireValueOk(val.f.mapValue.f.fields.f[k])
  ELSE TRUE

\* The JSON the store answers a read with: an integerValue is a string of
\* digits, and an empty list or map comes without its values / fields member.
RECURSIVE RenderValue(_)
RenderFields(fields) == Obj([k \in DOMAIN fields.f |-> RenderValue(fields.f[k])])

RenderValue(val) ==
  IF "integerValue" \in DOMAIN val.f
    THEN Obj([integerValue |-> Str(NumberToString(val.f.integerValue))])
  ELSE IF "arrayValue" \in DOMAIN val.f
    THEN LET xs == val.f.arrayValue.f.values.a
         IN IF xs = <<>> THEN Obj([arrayValue |-> Obj(EmptyFields)])
            ELSE Obj([arrayValue |-> Obj([values |-> Arr([i \in 1..Len(xs) |-> RenderValue(xs[i])])])])
  ELSE IF "mapValue" \in DOMAIN val.f
    THEN LET fs == val.f.mapValue.f.fields
         IN IF DOMAIN fs.f = {} THEN Obj([mapValue |-> Obj(EmptyFields)])
            ELSE Obj([mapValue |-> Obj([fields |-> RenderFields(fs)])])
  ELSE val

\* How a store call can end: the store applies it and answers 2xx ("ok"), it
\* answers non-2xx and applies nothing ("httpError"), the fetch rejects with
\* nothing applied ("reject"), or the fetch rejects after the store applied the
\* write (the answer is lost: "rejectApplied").
StoreOutcomes == {"ok", "httpError", "reject", "rejectApplied"}

ReadOutcomes == {"ok", "httpError", "reject"}

FetchRejects(outcome) == outcome \in {"reject", "rejectApplied"}

\* POST documents?documentId=id with the body { fields }: a new document, when
\* the store applies the call, the body is well-formed and id is not taken.
CreateApplies(doc, fields, outcome) ==
  outcome \in {"ok", "rejectApplied"} /\ doc = NoDoc /\ WireFieldsOk(fields)

\* PATCH documents/id?updateMask.fieldPaths=...: the fields named by the mask
\* are replaced by those of the body (a masked field missing from the body is
\* deleted), every other field is left as it is; a missing document is created.
PatchApplies(fields, outcome) ==
  outcome \in {"ok", "rejectApplied"} /\ WireFieldsOk(fields)

PatchedDoc(doc, mask, fields) ==
  LET old  == IF doc = NoDoc THEN EmptyFields ELSE doc.f
      keys == (DOMAIN old \ mask) \cup (mask \cap DOMAIN fields.f)
  IN Obj([k \in keys |-> IF k \in mask THEN fields.f[k] ELSE old[k]])

\* A PATCH sent without the updateMask query: the body replaces the document.
UpdateMaskMissing(updates) ==
  {"destination", "durationDays", "status", "createdAt", "completedAt", "itinerary", "error"}

\* Object.keys(updates).map(f => `updateMask.fieldPaths=${f}`)
UpdateMask(updates) == DOMAIN updates.f

\* updateFirestore(jobId, updates, token, env): the document under jobId after
\* the call, when it was doc before and the call ended with outcome.
updateFirestore(doc, updates, outcome) ==
  LET fields == toFirestoreFields(updates)
  IN IF ~IsThrow(fields) /\ PatchApplies(fields, outcome)
     THEN PatchedDoc(doc, UpdateMask(updates), fields)
     ELSE doc

(* ------------------------------------------------------------------ *)
(* State                                                               *)
(* ------------------------------------------------------------------ *)

\* The number of POST / requests served (one job each).
MaxJobs == 2

\* The number of other requests (status requests, unmatched routes) served
\* at the same time.
MaxGets == 2

JobIds == 1..MaxJobs

GetIds == 1..MaxGets

\* The POST / requests of a run, numbered as they arrive.
PostIds == 1..MaxJobs

VARIABLES
  posts,    \* the POST / requests, in order of arrival, up to the reading of the body
  jobs,     \* per job id taken: the handler's and the background task's locals
  nextJob,  \* the number of the next id crypto.randomUUID() gives
  store,    \* the itineraries collection: document id -> fields, or NoDoc
  writes,   \* per job id, the store writes issued so far (history)
  gets,     \* the other requests being served: the handler's locals of each
  load,     \* what the clients send in this run
  codec     \* a value on its way through toValue / fromValue

vars == <<posts, jobs, nextJob, store, writes, gets, load, codec>>

sysVars == <<posts, jobs, nextJob, store, writes, gets, load>>

NoResp == [kind |-> "none"]

RECURSIVE ToJson(_)
\* The value JSON.stringify writes for v: null for NaN and the infinities,
\* and for undefined and functions in an array; a key that holds undefined
\* or a function is left out.
ToJson(v) ==
  IF v.t \in {"nan", "inf"} THEN Null
  ELSE IF v.t = "arr"
    THEN Arr([i \in 1..Len(v.a) |->
                IF v.a[i].t \in {"undefined", "function"} THEN Null ELSE ToJson(v.a[i])])
  ELSE IF v.t = "obj"
    THEN Obj([k \in {x \in DOMAIN v.f : v.f[x].t \notin {"undefined", "function"}} |->
                ToJson(v.f[k])])
  ELSE v

\* JSON.stringify(data, null, 2): the text that parses to ToJson(data);
\* undefined when data is undefined or a function.
JSONStringify(data) ==
  IF data.t \in {"undefined", "function"} THEN Undefined ELSE JsonText(ToJson(data))

\* The headers of every response of jsonResponse.
ResponseHeaders ==
  ("Content-Type" :> "application/json") @@ ("Access-Control-Allow-Origin" :> "*")

\* jsonResponse(data, status)
jsonResponse(data, status) ==
  [kind |-> "response", status |-> status, headers |-> ResponseHeaders,
   body |-> JSONStringify(data)]

\* new Response("Not Found", { status: 404 }): a text body gets the text
\* content type, and no CORS header is set.
NotFoundResponse ==
  [kind |-> "response", status |-> 404,
   headers |-> ("Content-Type" :> "text/plain;charset=UTF-8"),
   body |-> Str(<<"N", "o", "t", " ", "F", "o", "u", "n", "d">>)]

\* What the caller gets when the handler's promise rejects: the runtime's
\* error answer for an uncaught exception, never a response of the code.
Uncaught(err) == [kind |-> "exception", error |-> err.m]

\* retryWithBackoff has not ended (or was never called).
NoTurn == [do |-> "none"]

FreeJob ==
  [pc |-> "free", body |-> Undefined, resp |-> NoResp, token |-> Undefined,
   res |-> NoResp, i |-> 0, calls |-> 0, fails |-> 0, waits |-> <<>>, last |-> Undefined,
   retry |-> NoTurn, out |-> Undefined, inflight |-> {}]

IdlePost == [pc |-> "idle", body |-> Undefined, resp |-> NoResp]

IdleGet ==
  [pc |-> "idle", id |-> 0, token |-> Undefined, res |-> NoResp, resp |-> NoResp,
   found |-> FALSE, early |-> FALSE]

CodecOff == [pc |-> "off", v |-> Null, w |-> Null, out |-> Null]

(* ------------------------------------------------------------------ *)
(* Requests and routes                                                 *)
(* ------------------------------------------------------------------ *)

\* const { method, url } = request; const { pathname } = new URL(url)
Request(method, pathname) == [method |-> method, pathname |-> pathname]

\* '/status/'
StatusPrefix == <<"/", "s", "t", "a", "t", "u", "s", "/">>

RECURSIVE Split(_, _, _)
\* cs.split(sep) for a separator that is not empty; piece holds the
\* characters read since the last separator.
Split(cs, sep, piece) ==
  IF cs = <<>> THEN <<piece>>
  ELSE IF StartsWith(cs, sep)
    THEN <<piece>> \o Split(SubSeq(cs, Len(sep) + 1, Len(cs)), sep, <<>>)
  ELSE Split(Tail(cs), sep, Append(piece, cs[1]))

\* The branch of the fetch handler a request takes.
Route(request) ==
  IF request.method = "GET" /\ StartsWith(request.pathname, StatusPrefix) THEN "status"
  ELSE IF request.method = "POST" /\ request.pathname = <<"/">> THEN "create"
  ELSE "none"

\* pathname.split('/status/')[1]
JobIdOf(pathname) == Split(pathname, StatusPrefix, <<>>)[2]

\* The request whose crypto.randomUUID() gave this id.
JobOf(jobId) == CHOOSE j \in JobIds : UuidOf(j).s = jobId

\* The requests the clients send: POST /, a status request for each id, and
\* requests no branch of the handler takes.
Requests ==
  { Request("POST", <<"/">>) }
    \cup { Request("GET", StatusPrefix \o UuidOf(j).s) : j \in JobIds }
    \cup { Request("GET", <<"/">>),
           Request("GET", <<"/", "s", "t", "a", "t", "u", "s">>),
           Request("POST", StatusPrefix \o UuidOf(1).s),
           Request("DELETE", <<"/">>) }

(* ------------------------------------------------------------------ *)
(* Inputs                                                              *)
(* ------------------------------------------------------------------ *)

\* Request bodies of POST /: a valid one, and two create() is to reject, the
\* second with a destination that has no primitive value.
ValidBodies ==
  { Obj([destination |-> Paris, durationDays |-> JsInt(3)]) }

InvalidBodies ==
  { Obj([destination |-> Str(<<>>), durationDays |-> JsInt(0)]),
    Obj([destination |-> Obj([toString |-> JsInt(1)]), durationDays |-> JsInt(3)]) }

\* Bodies that lack a field: the document built from them cannot be encoded.
IncompleteBodies == { Obj(EmptyFields) }

\* What await request.json() gives for the body "null", and its rejection for
\* a body that is not JSON.
UnreadableBodies == { Null, Throw(MsgSyntaxError) }

PostBodies == ValidBodies \cup InvalidBodies \cup IncompleteBodies \cup UnreadableBodies

Activity1 ==
  Obj([time |-> Str(<<"9", "a", "m">>), description |-> Str(<<"w", "a", "l", "k">>),
       location |-> Str(<<"q", "u", "a", "y">>)])

Day1 == Obj([day |-> JsInt(1), theme |-> Str(<<"a", "r", "t">>), activities |-> Arr(<<Activity1>>)])

Day2 == Obj([day |-> JsInt(2), theme |-> Str(<<"f", "o", "o", "d">>), activities |-> Arr(<<>>)])

\* A day whose number is not positive.
BadDay == Obj([day |-> JsInt(0), theme |-> Str(<<"a", "r", "t">>), activities |-> Arr(<<>>)])

\* A day with a key the schema does not name.
ExtraDay ==
  Obj([day |-> JsInt(1), theme |-> Str(<<"a", "r", "t">>), activities |-> Arr(<<>>),
       notes |-> Str(<<"x">>)])

\* Answers of the generative service to one call.
LLMResponses ==
  { Rejected,
    ApiError(Obj(EmptyFields)),
    Completion(NotJsonText),
    Completion(JsonText(Obj(EmptyFields))),
    Completion(JsonText(Obj([itinerary |-> Arr(<<Day1, Day2>>)]))),
    Completion(JsonText(Obj([itinerary |-> Arr(<<Day1, BadDay>>)]))),
    Completion(JsonText(Obj([itinerary |-> Arr(<<ExtraDay>>)]))) }

\* The runs explored.  One POST / with every input, next to one other request
\* at a time; MaxJobs POST / with every input and no other request; MaxJobs
\* POST / next to MaxGets other requests at a time, with a valid body, a
\* token endpoint and a store that answer, and a generative service that
\* answers with an itinerary or with JSON that holds none.
Workloads ==
  { [posts |-> 1, others |-> 1, inputs |-> "all"],
    [posts |-> MaxJobs, others |-> 0, inputs |-> "all"],
    [posts |-> MaxJobs, others |-> MaxGets, inputs |-> "plain"] }

\* No request at all.
NoLoad == [posts |-> 0, others |-> 0, inputs |-> "plain"]

BodiesOf(l) == IF l.inputs = "all" THEN PostBodies ELSE ValidBodies

MintsOf(l, tok) ==
  IF l.inputs = "all" THEN MintResponses(tok)
  ELSE { [kind |-> "http", json |-> Obj([access_token |-> tok])] }

LlmsOf(l) ==
  IF l.inputs = "all" THEN LLMResponses
  ELSE { Completion(JsonText(Obj(EmptyFields))),
         Completion(JsonText(Obj([itinerary |-> Arr(<<Day1, Day2>>)]))) }

WritesOf(l) == IF l.inputs = "all" THEN StoreOutcomes ELSE {"ok"}

ReadsOf(l) == IF l.inputs = "all" THEN ReadOutcomes ELSE {"ok"}

Init ==
  /\ posts = [p \in PostIds |-> IdlePost]
  /\ jobs = [j \in JobIds |-> FreeJob]
  /\ nextJob = 1
  /\ store = [j \in JobIds |-> NoDoc]
  /\ writes = [j \in JobIds |-> <<>>]
  /\ gets = [g \in GetIds |-> IdleGet]
  /\ load \in Workloads
  /\ codec = CodecOff

\* The document POST / builds for job j from the request body.
InitialDoc(j, body) ==
  Ordered(<<"destination", "durationDays", "status", "createdAt", "completedAt",
            "itinerary", "error">>,
          [destination |-> Prop(body, "destination"),
           durationDays |-> Prop(body, "durationDays"),
           status |-> Processing,
           createdAt |-> CreatedAtOf(j),
           completedAt |-> Null,
           itinerary |-> Arr(<<>>),
           error |-> Null])

\* The updates of the two terminal patches of generateItineraryAndUpdate.
SuccessUpdates(j, itinerary) ==
  Ordered(<<"itinerary", "status", "completedAt">>,
          [itinerary |-> itinerary, status |-> Completed, completedAt |-> CompletedAtOk(j)])

FailureUpdates(j, message) ==
  Ordered(<<"status", "error", "completedAt">>,
          [status |-> Failed, error |-> message, completedAt |-> CompletedAtFail(j)])

(* ------------------------------------------------------------------ *)
(* POST /                                                              *)
(* ------------------------------------------------------------------ *)

\* A step is one turn of the worker: the code that runs when something the
\* handler waits for outside its own code arrives (the request, its body, the
\* crypto subsystem, an answer of a service, a timer), up to the next such
\* wait.  A promise the code itself settles resumes its awaiter in the same
\* turn, before any other event is handled.  Between two steps of a handler
\* any step of any other handler may come.

\* Every request written to one fixed document.
DocIdShared(jobId) == 1

\* .../documents/itineraries?documentId=${jobId} and .../itineraries/${jobId}:
\* the document a store call of the job with this id goes to.
DocId(jobId) == jobId

\* A POST / arrives: the handler runs to await request.json().
PostArrive(p, request, body) ==
  /\ Route(request) = "create"
  /\ p <= load.posts
  /\ posts[p].pc = "idle"
  /\ \A q \in 1..(p - 1) : posts[q].pc # "idle"
  /\ posts' = [posts EXCEPT ![p] = [IdlePost EXCEPT !.pc = "body", !.body = body]]
  /\ UNCHANGED <<jobs, nextJob, store, writes, gets, load, codec>>

\* The body has been read.  const { destination, durationDays } = ... throws
\* on the rejection of request.json() and on null, which has no properties:
\* no id is taken and the caller gets the runtime's error.  Otherwise the id
\* and createdAt are taken, the document is built, nothing of the body is
\* checked, and getFirestoreAccessToken runs to await crypto.subtle.importKey.
\* The ids are numbered as they are taken, and id number j is UuidOf(j):
\* crypto.randomUUID() gives a fresh value each time, whichever it is.  From
\* here on the request is job nextJob.
PostBody(p) ==
  /\ posts[p].pc = "body"
  /\ IF IsThrow(Prop(posts[p].body, "destination"))
     THEN /\ posts' = [posts EXCEPT ![p] =
                [@ EXCEPT !.pc = "rejected", !.resp = Uncaught(Prop(posts[p].body, "destination"))]]
          /\ UNCHANGED <<jobs, nextJob>>
     ELSE /\ posts' = [posts EXCEPT ![p] = [IdlePost EXCEPT !.pc = "taken"]]
          /\ jobs' = [jobs EXCEPT ![nextJob] = [FreeJob EXCEPT !.pc = "key", !.body = posts[p].body]]
          /\ nextJob' = nextJob + 1
  /\ UNCHANGED <<store, writes, gets, load, codec>>

\* The key is imported: getFirestoreAccessToken runs to await crypto.subtle.sign.
PostKey(j) ==
  /\ jobs[j].pc = "key"
  /\ jobs' = [jobs EXCEPT ![j].pc = "sign"]
  /\ UNCHANGED <<posts, nextJob, store, writes, gets, load, codec>>

\* The JWT is signed: the exchange is sent, await fetch(.../token).
PostSign(j) ==
  /\ jobs[j].pc = "sign"
  /\ jobs' = [jobs EXCEPT ![j].pc = "exchange"]
  /\ UNCHANGED <<posts, nextJob, store, writes, gets, load, codec>>

\* The fetch of the exchange settles.  A rejection leaves getFirestoreAccessToken
\* and the handler; on an answer the code goes on to await tokenRes.json().
PostExchange(j, tokenRes) ==
  /\ jobs[j].pc = "exchange"
  /\ jobs' = [jobs EXCEPT ![j] =
       IF tokenRes.kind = "reject"
       THEN [@ EXCEPT !.pc = "aborted", !.resp = Uncaught(getFirestoreAccessToken(tokenRes))]
       ELSE [@ EXCEPT !.pc = "mint", !.res = tokenRes]]
  /\ UNCHANGED <<posts, nextJob, store, writes, gets, load, codec>>

\* The body of the exchange's answer has been read: getFirestoreAccessToken
\* returns the token or throws.  With the token, saveToFirestore encodes the
\* document and sends its request in the same turn, unless the encoding
\* throws, which ends the handler.
PostMint(j) ==
  /\ jobs[j].pc = "mint"
  /\ LET Minted(job, token, fields) ==
           IF IsThrow(token)
           THEN [job EXCEPT !.pc = "aborted", !.res = NoResp, !.resp = Uncaught(token)]
           ELSE IF IsThrow(fields)
           THEN [job EXCEPT !.pc = "aborted", !.res = NoResp, !.token = token,
                            !.resp = Uncaught(fields)]
           ELSE [job EXCEPT !.pc = "save", !.res = NoResp, !.token = token,
                            !.inflight = {"create"}]
     IN jobs' = [jobs EXCEPT ![j] =
          Minted(@, getFirestoreAccessToken(jobs[j].res),
                 toFirestoreFields(InitialDoc(j, jobs[j].body)))]
  /\ UNCHANGED <<posts, nextJob, store, writes, gets, load, codec>>

\* What the fetch of a store write settles with: the answer of the store, or
\* a rejection.
WriteAnswer(outcome) ==
  IF FetchRejects(outcome) THEN Rejected ELSE [kind |-> "http", ok |-> outcome = "ok"]

\* The store handles the create of job j; its answer is on its way while
\* other steps go on.
StoreCreate(j, outcome) ==
  /\ jobs[j].pc = "save"
  /\ jobs[j].res = NoResp
  /\ LET Sent(fields, applied) ==
           /\ store' = IF applied THEN [store EXCEPT ![DocId(j)] = fields] ELSE store
           /\ writes' = [writes EXCEPT ![j] =
                Append(@, [op |-> "create", applied |-> applied, token |-> jobs[j].token])]
         Create(fields) == Sent(fields, CreateApplies(store[DocId(j)], fields, outcome))
     IN Create(toFirestoreFields(InitialDoc(j, jobs[j].body)))
  /\ jobs' = [jobs EXCEPT ![j].res = WriteAnswer(outcome)]
  /\ UNCHANGED <<posts, nextJob, gets, load, codec>>

\* callLLM has settled with r (its value, or the error thrown): the turn of
\* retryWithBackoff and, when the loop returns or rethrows, the validation,
\* the choice of the terminal update and the sending of its PATCH.
AfterCall(job, r) ==
  LET Validated(called, turn, validated) ==
        IF IsThrow(validated)
        THEN [called EXCEPT !.pc = "patchFail", !.retry = turn, !.out = validated.m,
                            !.inflight = @ \cup {"failed"}]
        ELSE [called EXCEPT !.pc = "patchOk", !.retry = turn,
                            !.out = validated.f.itinerary,
                            !.inflight = @ \cup {"completed"}]
      Turned(called, turn) ==
        IF turn.do = "wait" THEN [called EXCEPT !.pc = "backoff", !.last = Undefined]
        ELSE IF turn.do = "throw"
          THEN [called EXCEPT !.pc = "patchFail", !.retry = turn, !.out = turn.err.m,
                              !.inflight = @ \cup {"failed"}]
        ELSE Validated(called, turn, ItinerarySchemaParse(Obj([itinerary |-> turn.value])))
  IN Turned([job EXCEPT !.calls = @ + 1,
                        !.fails = IF IsThrow(r) THEN @ + 1 ELSE @,
                        !.last = r,
                        !.res = NoResp],
            RetryTurn(job.i, r))

\* A call of callLLM at the head of a turn of retryWithBackoff: it runs to its
\* await fetch.  When the prompt cannot be built it throws before any request
\* is sent, and what follows the throw runs in the same turn.
Call(job) ==
  LET prompt == Prompt(Prop(job.body, "destination"), Prop(job.body, "durationDays"))
  IN IF IsThrow(prompt) THEN AfterCall(job, prompt) ELSE [job EXCEPT !.pc = "llm"]

\* saveToFirestore(...) called without await: the handler schedules the task
\* and returns while the create is still on its way.
PostSaveNotAwaited(j) ==
  /\ jobs[j].pc = "save"
  /\ jobs[j].res = NoResp
  /\ jobs' = [jobs EXCEPT ![j] =
       Call([@ EXCEPT !.resp = jsonResponse(Obj([jobId |-> UuidOf(j)]), 202)])]
  /\ UNCHANGED <<posts, nextJob, store, writes, gets, load, codec>>

\* await saveToFirestore(...); ctx.waitUntil(generateItineraryAndUpdate(...));
\* return jsonResponse({ jobId }, 202). The fetch of the create settles. The
\* answer is not looked at: only a rejected fetch stops the handler. The
\* background task runs on to its first call of callLLM.
PostSave(j) ==
  /\ jobs[j].pc = "save"
  /\ jobs[j].res # NoResp
  /\ jobs' = [jobs EXCEPT ![j] =
       IF jobs[j].res.kind = "reject"
       THEN [@ EXCEPT !.pc = "aborted", !.res = NoResp,
                      !.resp = Uncaught(Throw(MsgFetchFailed)),
                      !.inflight = @ \ {"create"}]
       ELSE Call([@ EXCEPT !.res = NoResp,
                           !.resp = jsonResponse(Obj([jobId |-> UuidOf(j)]), 202),
                           !.inflight = @ \ {"create"}])]
  /\ UNCHANGED <<posts, nextJob, store, writes, gets, load, codec>>

(* ------------------------------------------------------------------ *)
(* generateItineraryAndUpdate                                          *)
(* ------------------------------------------------------------------ *)

\* The fetch of callLLM settles.  A rejection is the error callLLM throws; on
\* an answer the code goes on to await res.json().
LlmFetch(j, res) ==
  /\ jobs[j].pc = "llm"
  /\ jobs' = [jobs EXCEPT ![j] =
       IF res.kind = "reject"
       THEN AfterCall(@, callLLM(Prop(jobs[j].body, "destination"),
                                 Prop(jobs[j].body, "durationDays"), res))
       ELSE [@ EXCEPT !.pc = "llmJson", !.res = res]]
  /\ UNCHANGED <<posts, nextJob, store, writes, gets, load, codec>>

\* The body of the answer has been read: the rest of callLLM, and what
\* follows its return or throw.
LlmJson(j) ==
  /\ jobs[j].pc = "llmJson"
  /\ jobs' = [jobs EXCEPT ![j] =
       AfterCall(@, callLLM(Prop(jobs[j].body, "destination"),
                            Prop(jobs[j].body, "durationDays"), jobs[j].res))]
  /\ UNCHANGED <<posts, nextJob, store, writes, gets, load, codec>>

\* await new Promise(res => setTimeout(res, delay * (2 ** i))), then i++ and
\* the next call of callLLM.
Backoff(j) ==
  /\ jobs[j].pc = "backoff"
  /\ jobs' = [jobs EXCEPT ![j] =
       Call([@ EXCEPT !.i = @ + 1, !.waits = Append(@, BackoffDelay(jobs[j].i))])]
  /\ UNCHANGED <<posts, nextJob, store, writes, gets, load, codec>>

\* The locals of retryWithBackoff, which has ended when a terminal update is
\* sent, are kept until the store has handled the update.
AfterRetry(job) == [job EXCEPT !.i = 0, !.calls = 0, !.fails = 0, !.waits = <<>>]

\* The store handles the terminal PATCH of job j; its answer is on its way
\* while other steps go on.
StorePatch(j, outcome) ==
  /\ jobs[j].pc \in {"patchOk", "patchFail"}
  /\ jobs[j].res = NoResp
  /\ LET Sent(op, updates) ==
           /\ store' = [store EXCEPT ![DocId(j)] = updateFirestore(@, updates, outcome)]
           /\ writes' = [writes EXCEPT ![j] =
                Append(@, [op |-> op,
                           applied |-> PatchApplies(toFirestoreFields(updates), outcome),
                           token |-> jobs[j].token])]
     IN IF jobs[j].pc = "patchOk"
        THEN Sent("completed", SuccessUpdates(j, jobs[j].out))
        ELSE Sent("failed", FailureUpdates(j, jobs[j].out))
  /\ jobs' = [jobs EXCEPT ![j] = [AfterRetry(@) EXCEPT !.res = WriteAnswer(outcome)]]
  /\ UNCHANGED <<posts, nextJob, gets, load, codec>>

\* await updateFirestore(jobId, { itinerary, status: "completed", completedAt })
\* inside the try: the fetch of the PATCH settles; a rejected fetch lands in
\* the catch block, which sends its PATCH.
PatchOk(j) ==
  /\ jobs[j].pc = "patchOk"
  /\ jobs[j].res # NoResp
  /\ jobs' = [jobs EXCEPT ![j] =
       IF jobs[j].res.kind = "reject"
       THEN [@ EXCEPT !.pc = "patchFail", !.res = NoResp, !.out = MsgFetchFailed,
                                  !.inflight = (@ \ {"completed"}) \cup {"failed"}]
       ELSE [@ EXCEPT !.pc = "done", !.res = NoResp,
                                  !.inflight = @ \ {"completed"}]]
  /\ UNCHANGED <<posts, nextJob, store, writes, gets, load, codec>>

\* await updateFirestore(jobId, { status: "failed", error, completedAt }) in the
\* catch block: the fetch of the PATCH settles and, whatever its end, the
\* task is over.
PatchFail(j) ==
  /\ jobs[j].pc = "patchFail"
  /\ jobs[j].res # NoResp
  /\ jobs' = [jobs EXCEPT ![j] =
       [@ EXCEPT !.pc = "done", !.res = NoResp, !.inflight = @ \ {"failed"}]]
  /\ UNCHANGED <<posts, nextJob, store, writes, gets, load, codec>>

(* ------------------------------------------------------------------ *)
(* GET /status/{jobId} and unmatched routes                            *)
(* ------------------------------------------------------------------ *)

\* A request other than POST / is served by the first invocation that serves
\* none.
FreeGet(g) ==
  /\ g <= load.others
  /\ gets[g].pc = "idle"
  /\ \A h \in 1..(g - 1) : gets[h].pc # "idle"

\* return new Response("Not Found", { status: 404 }): a request neither of
\* the two branches takes is answered in the turn it arrives in.
NotFound(g, request) ==
  /\ Route(request) = "none"
  /\ FreeGet(g)
  /\ gets' = [gets EXCEPT ![g] = [IdleGet EXCEPT !.pc = "done", !.resp = NotFoundResponse]]
  /\ UNCHANGED <<posts, jobs, nextJob, store, writes, load, codec>>

\* A status request arrives: the jobId is cut from the path and
\* getFirestoreAccessToken runs to await crypto.subtle.importKey.
GetArrive(g, request) ==
  /\ Route(request) = "status"
  /\ FreeGet(g)
  /\ gets' = [gets EXCEPT ![g] =
       [IdleGet EXCEPT !.pc = "key", !.id = JobOf(JobIdOf(request.pathname))]]
  /\ UNCHANGED <<posts, jobs, nextJob, store, writes, load, codec>>

\* The key is imported: await crypto.subtle.sign.
GetKey(g) ==
  /\ gets[g].pc = "key"
  /\ gets' = [gets EXCEPT ![g].pc = "sign"]
  /\ UNCHANGED <<posts, jobs, nextJob, store, writes, load, codec>>

\* The JWT is signed: the exchange is sent, await fetch(.../token).
GetSign(g) ==
  /\ gets[g].pc = "sign"
  /\ gets' = [gets EXCEPT ![g].pc = "exchange"]
  /\ UNCHANGED <<posts, jobs, nextJob, store, writes, load, codec>>

\* The fetch of the exchange settles: a rejection leaves the handler, on an
\* answer the code goes on to await tokenRes.json().
GetExchange(g, tokenRes) ==
  /\ gets[g].pc = "exchange"
  /\ gets' = [gets EXCEPT ![g] =
       IF tokenRes.kind = "reject"
       THEN [@ EXCEPT !.pc = "done", !.resp = Uncaught(getFirestoreAccessToken(tokenRes))]
       ELSE [@ EXCEPT !.pc = "mint", !.res = tokenRes]]
  /\ UNCHANGED <<posts, jobs, nextJob, store, writes, load, codec>>

\* The body of the exchange's answer has been read: getFirestoreAccessToken
\* returns the token or throws; with the token getFirestoreDocument sends its
\* read, await fetch(.../itineraries/${jobId}).
GetMint(g) ==
  /\ gets[g].pc = "mint"
  /\ LET Minted(token) ==
           IF IsThrow(token)
           THEN [gets[g] EXCEPT !.pc = "done", !.res = NoResp, !.resp = Uncaught(token)]
           ELSE [gets[g] EXCEPT !.pc = "read", !.res = NoResp, !.token = token]
     IN gets' = [gets EXCEPT ![g] = Minted(getFirestoreAccessToken(gets[g].res))]
  /\ UNCHANGED <<posts, jobs, nextJob, store, writes, load, codec>>

\* The answer of GET documents/id: 2xx with the document when there is one.
ReadAnswer(doc, outcome) ==
  IF outcome = "reject" THEN Rejected
  ELSE IF outcome = "ok" /\ doc # NoDoc
    THEN [kind |-> "http", ok |-> TRUE,
          json |-> IF DOMAIN doc.f = {} THEN Obj(EmptyFields)
                   ELSE Obj([fields |-> RenderFields(doc)])]
  ELSE [kind |-> "http", ok |-> FALSE, json |-> Obj(EmptyFields)]

\* getFirestoreDocument(jobId, token, env) on the answer res of its fetch.
getFirestoreDocument(res) ==
  IF res.kind = "reject" THEN Throw(MsgFetchFailed)
  ELSE IF ~res.ok THEN Throw(MsgDocNotFound)
  ELSE fromFirestoreFields(OrElse(res.json, "fields", Obj(EmptyFields)))

HasAppliedPatch(ws) == \E k \in 1..Len(ws) : ws[k].op # "create" /\ ws[k].applied

\* The store answers the read of getFirestoreDocument with the document as
\* it is at that moment; the answer is on its way while other steps go on.
GetRead(g, outcome) ==
  /\ gets[g].pc = "read"
  /\ gets' = [gets EXCEPT ![g] =
       [@ EXCEPT !.pc = "answer",
                 !.res = ReadAnswer(store[DocId(gets[g].id)], outcome),
                 !.found = store[DocId(gets[g].id)] # NoDoc,
                 !.early = ~HasAppliedPatch(writes[gets[g].id])]]
  /\ UNCHANGED <<posts, jobs, nextJob, store, writes, load, codec>>

\* The fetch of getFirestoreDocument settles.  A rejection, and an answer
\* that is not ok (if (!res.ok) throw ...), leave getFirestoreDocument and
\* the handler; on an ok answer the code goes on to await res.json().
GetDoc(g) ==
  /\ gets[g].pc = "answer"
  /\ gets' = [gets EXCEPT ![g] =
       IF gets[g].res.kind = "reject" \/ ~gets[g].res.ok
       THEN [@ EXCEPT !.pc = "done", !.resp = Uncaught(getFirestoreDocument(gets[g].res))]
       ELSE [@ EXCEPT !.pc = "json"]]
  /\ UNCHANGED <<posts, jobs, nextJob, store, writes, load, codec>>

\* The body of the answer has been read: return fromFirestoreFields(...) and
\* return jsonResponse(data), or the error of the decoding.
GetJson(g) ==
  /\ gets[g].pc = "json"
  /\ LET Returned(data) == IF IsThrow(data) THEN Uncaught(data) ELSE jsonResponse(data, 200)
     IN gets' = [gets EXCEPT ![g] =
          [@ EXCEPT !.pc = "done", !.resp = Returned(getFirestoreDocument(gets[g].res))]]
  /\ UNCHANGED <<posts, jobs, nextJob, store, writes, load, codec>>

\* The response has gone to the caller.
GetReturn(g) ==
  /\ gets[g].pc = "done"
  /\ gets' = [gets EXCEPT ![g] = IdleGet]
  /\ UNCHANGED <<posts, jobs, nextJob, store, writes, load, codec>>

Post(j) ==
  \/ PostKey(j)
  \/ PostSign(j)
  \/ \E tokenRes \in MintsOf(load, PostToken(j)) : PostExchange(j, tokenRes)
  \/ PostMint(j)
  \/ \E outcome \in WritesOf(load) : StoreCreate(j, outcome)
  \/ PostSave(j)

Task(j) ==
  \/ \E res \in LlmsOf(load) : LlmFetch(j, res)
  \/ LlmJson(j)
  \/ Backoff(j)
  \/ \E outcome \in WritesOf(load) : StorePatch(j, outcome)
  \/ PatchOk(j)
  \/ PatchFail(j)

Get(g) ==
  \/ \E request \in Requests : NotFound(g, request)
  \/ \E request \in Requests : GetArrive(g, request)
  \/ GetKey(g)
  \/ GetSign(g)
  \/ \E tokenRes \in MintsOf(load, GetToken(g)) : GetExchange(g, tokenRes)
  \/ GetMint(g)
  \/ \E outcome \in ReadsOf(load) : GetRead(g, outcome)
  \/ GetDoc(g)
  \/ GetJson(g)
  \/ GetReturn(g)

Next ==
  \/ \E p \in PostIds : \E request \in Requests : \E body \in BodiesOf(load) :
       PostArrive(p, request, body)
  \/ \E p \in PostIds : PostBody(p)
  \/ \E j \in JobIds : Post(j)
  \/ \E j \in JobIds : Task(j)
  \/ \E g \in GetIds : Get(g)

Spec == Init /\ [][Next]_vars

(* ------------------------------------------------------------------ *)
(* The codec on its own                                                *)
(* ------------------------------------------------------------------ *)

CodecInit ==
  /\ posts = [p \in PostIds |-> IdlePost]
  /\ jobs = [j \in JobIds |-> FreeJob]
  /\ nextJob = 1
  /\ store = [j \in JobIds |-> NoDoc]
  /\ writes = [j \in JobIds |-> <<>>]
  /\ gets = [g \in GetIds |-> IdleGet]
  /\ load = NoLoad
  /\ codec \in { [pc |-> "value", v |-> v, w |-> Null, out |-> Null] :
                   v \in CodecValues \cup CodecUnsupported }

\* w = toValue(v)
CodecEncode ==
  /\ codec.pc = "value"
  /\ codec' = [codec EXCEPT !.pc = "encoded", !.w = toValue(codec.v)]
  /\ UNCHANGED sysVars

\* out = fromValue(w)
CodecDecode ==
  /\ codec.pc = "encoded"
  /\ ~IsThrow(codec.w)
  /\ codec' = [codec EXCEPT !.pc = "decoded", !.out = fromValue(codec.w)]
  /\ UNCHANGED sysVars

\* w = toFirestoreFields(doc), for a value that is a document (a map)
CodecEncodeFields ==
  /\ codec.pc = "value"
  /\ codec.v.t = "obj"
  /\ codec' = [codec EXCEPT !.pc = "fieldsEncoded", !.w = toFirestoreFields(codec.v)]
  /\ UNCHANGED sysVars

\* out = fromFirestoreFields(w)
CodecDecodeFields ==
  /\ codec.pc = "fieldsEncoded"
  /\ ~IsThrow(codec.w)
  /\ codec' = [codec EXCEPT !.pc = "fieldsDecoded", !.out = fromFirestoreFields(codec.w)]
  /\ UNCHANGED sysVars

CodecNext == CodecEncode \/ CodecDecode \/ CodecEncodeFields \/ CodecDecodeFields

CodecSpec == CodecInit /\ [][CodecNext]_vars

(* ------------------------------------------------------------------ *)
(* Properties                                                          *)
(* ------------------------------------------------------------------ *)

\* The record of job j as a status request decodes it.
Record(j) == fromFirestoreFields(RenderFields(store[j]))

Returned202(j) == jobs[j].resp.kind = "response" /\ jobs[j].resp.status = 202

IsTerminal(status) == status \in {Completed, Failed}

\* The last store write issued for job j.
LastWrite(j) == writes[j][Len(writes[j])]

\* C1: every job id returned with a 202 has a record in the store, so a status
\* lookup for it finds a document.
C1_ReturnedIdHasRecord ==
  \A j \in JobIds : Returned202(j) => store[j] # NoDoc

\* C2: a status request that reads the record of a job created from a valid
\* body before any terminal update returns exactly the initial record:
\* destination and durationDays as submitted, status processing, itinerary [],
\* error null, completedAt null, as the JSON body of a 200 response.
C2_EarlyStatusIsInitialRecord ==
  \A g \in GetIds :
    LET get == gets[g]
    IN (get.pc = "done" /\ get.found /\ get.early /\ get.resp.kind = "response"
          /\ jobs[get.id].body \in ValidBodies)
       => get.resp = [kind |-> "response", status |-> 200, headers |-> ResponseHeaders,
                      body |-> JsonText(Obj([destination |-> jobs[get.id].body.f.destination,
                                             durationDays |-> jobs[get.id].body.f.durationDays,
                                             status |-> Processing,
                                             createdAt |-> CreatedAtOf(get.id),
                                             completedAt |-> Null,
                                             itinerary |-> Arr(<<>>),
                                             error |-> Null]))]

\* A status request has read the initial record of a job with a valid body
\* and is answered from it after the record has been completed.
C2_Witness ==
  \E g \in GetIds :
    LET get == gets[g]
    IN /\ get.pc = "done" /\ get.found /\ get.early /\ get.resp.kind = "response"
       /\ jobs[get.id].body \in ValidBodies
       /\ get.resp.body.value.f.durationDays = JsInt(3)
       /\ get.resp.body.value.f.status = Processing
       /\ store[get.id] # NoDoc
       /\ "status" \in DOMAIN store[get.id].f
       /\ store[get.id].f.status = toValue(Completed)

\* C3: a POST / whose body is invalid ends before any I/O: no token, no store
\* write, no record, no background task, no 202.
C3_InvalidBodyDoesNoIO ==
  \A j \in JobIds :
    jobs[j].body \in InvalidBodies
    => /\ jobs[j].token = Undefined
       /\ writes[j] = <<>>
       /\ store[j] = NoDoc
       /\ jobs[j].pc = "aborted"
       /\ ~Returned202(j)

\* C4: a status request for an id without a record, which the store answered,
\* is answered 404 Not Found.
C4_UnknownIdIs404 ==
  \A g \in GetIds :
    LET get == gets[g]
    IN (get.pc = "done" /\ get.token # Undefined /\ ~get.found
          /\ ~(get.resp.kind = "exception" /\ get.resp.error = MsgFetchFailed))
       => (get.resp.kind = "response" /\ get.resp.status = 404)

\* C5: no step changes a record whose status is completed or failed.
C5_TerminalRecordNeverChanges ==
  [][\A j \in JobIds :
       (store[j] # NoDoc /\ IsTerminal(Prop(Record(j), "status"))) => store'[j] = store[j]]_vars

\* C6: in every stored record, itinerary is non-empty only if status is
\* completed, error is set only if status is failed, and completedAt is set
\* exactly when status is completed or failed.
C6_RecordShape ==
  \A j \in JobIds :
    store[j] # NoDoc
    => LET r == Record(j)
       IN /\ (Prop(r, "itinerary").t = "arr" /\ Prop(r, "itinerary").a # <<>>)
               => Prop(r, "status") = Completed
          /\ Prop(r, "error").t = "str" => Prop(r, "status") = Failed
          /\ Prop(r, "completedAt").t = "str" <=> IsTerminal(Prop(r, "status"))

\* C7: when the store applies the success update of a job whose generation
\* returned a schema-valid array, the record has status completed, the itinerary
\* is exactly the generated Day objects in order, completedAt is set and error
\* is null.
C7_AppliedSuccessUpdateGivesCompletedRecord ==
  \A j \in JobIds :
    (writes[j] # <<>> /\ jobs[j].pc = "done" /\ LastWrite(j).op = "completed"
       /\ LastWrite(j).applied)
    => LET r == Record(j)
       IN /\ Prop(r, "status") = Completed
          /\ Prop(r, "itinerary") = jobs[j].last
          /\ Prop(r, "completedAt") = CompletedAtOk(j)
          /\ Prop(r, "error") = Null

\* C8: when every answer of the generative service was non-JSON content and the
\* store applies the failure update, the record has status failed, the error
\* message, completedAt set and an empty itinerary.
C8_AppliedFailureUpdateGivesFailedRecord ==
  \A j \in JobIds :
    (writes[j] # <<>> /\ jobs[j].pc = "done" /\ LastWrite(j).op = "failed"
       /\ LastWrite(j).applied /\ jobs[j].retry.do = "throw"
       /\ jobs[j].last = Throw(MsgSyntaxError))
    => LET r == Record(j)
       IN /\ Prop(r, "status") = Failed
          /\ Prop(r, "error") = MsgSyntaxError
          /\ Prop(r, "completedAt") = CompletedAtFail(j)
          /\ Prop(r, "itinerary") = Arr(<<>>)

\* C9: retryWithBackoff calls the operation min(k + 1, 3) times when its first
\* k calls fail, waits 1000 ms after the first failure and 2000 ms after the
\* second and never after the third, returns the value of the first call that
\* succeeds, and rethrows the error of the third call when all three fail.
C9_RetryCallsWaitsAndResult ==
  \A j \in JobIds :
    LET job == jobs[j]
    IN /\ job.pc \in {"llm", "llmJson"}
            => /\ job.calls = job.i /\ job.fails = job.i /\ job.i < 3
               /\ job.waits = SubSeq(<<1000, 2000>>, 1, job.i)
       /\ job.pc = "backoff"
            => /\ job.calls = job.i + 1 /\ job.fails = job.i + 1 /\ job.i < 2
               /\ job.waits = SubSeq(<<1000, 2000>>, 1, job.i)
       /\ (job.pc \in {"patchOk", "patchFail"} /\ job.calls > 0)
            => /\ job.calls = (IF job.fails + 1 < 3 THEN job.fails + 1 ELSE 3)
               /\ job.waits = SubSeq(<<1000, 2000>>, 1, job.calls - 1)
               /\ job.retry.do \in {"return", "throw"}
               /\ job.retry.do = "return"
                    => /\ ~IsThrow(job.last) /\ job.retry.value = job.last
                       /\ job.fails = job.calls - 1
               /\ job.retry.do = "throw"
                    => /\ IsThrow(job.last) /\ job.retry.err = job.last
                       /\ job.fails = 3

\* The loop has made three calls with waits of 1000 and 2000 ms between them
\* and has thrown the error of the third call.
C9_Witness ==
  \E j \in JobIds :
    /\ jobs[j].pc = "patchFail" /\ jobs[j].calls = 3 /\ jobs[j].fails = 3
    /\ jobs[j].retry.do = "throw" /\ jobs[j].waits = <<1000, 2000>>

\* C10: decoding the encoding of a value gives the value back, for toValue /
\* fromValue and for toFirestoreFields / fromFirestoreFields.
C10_RoundTrip ==
  (codec.pc \in {"decoded", "fieldsDecoded"} /\ codec.v \in CodecValues)
  => codec.out = codec.v

\* A value made of null, strings, integers, booleans, lists and maps only.
RECURSIVE IsSupported(_)
IsSupported(v) ==
  IF v.t \in {"null", "str", "bool"} THEN TRUE
  ELSE IF v.t = "num" THEN v.frac = <<>>
  ELSE IF v.t = "arr" THEN \A i \in 1..Len(v.a) : IsSupported(v.a[i])
  ELSE IF v.t = "obj" THEN \A k \in DOMAIN v.f : IsSupported(v.f[k])
  ELSE FALSE

\* The same, with every number allowed (fractional ones, NaN and the
\* infinities included).
RECURSIVE IsSupportedOrNumber(_)
IsSupportedOrNumber(v) ==
  IF v.t \in {"null", "str", "bool", "num", "nan", "inf"} THEN TRUE
  ELSE IF v.t = "arr" THEN \A i \in 1..Len(v.a) : IsSupportedOrNumber(v.a[i])
  ELSE IF v.t = "obj" THEN \A k \in DOMAIN v.f : IsSupportedOrNumber(v.f[k])
  ELSE FALSE

\* C11 (as stated): encoding a value that is not made of null, strings,
\* integers, booleans, lists and maps only (a fractional number or undefined, at
\* top level or nested) throws and yields no wire value.
C11_UnsupportedValueThrows ==
  (codec.pc \in {"encoded", "fieldsEncoded"} /\ ~IsSupported(codec.v))
  => IsThrow(codec.w)

\* C11 (amended): encoding throws exactly when the value holds, at top level or
\* nested, something that is not null, a string, a number, a boolean, a list or
\* a map; every number, fractional ones included, gets the integer tag.
C11_NonNumberUnsupportedValueThrows ==
  /\ codec.pc \in {"encoded", "fieldsEncoded"}
       => (IsThrow(codec.w) <=> ~IsSupportedOrNumber(codec.v))
  /\ (codec.pc = "encoded" /\ codec.v.t \in {"num", "nan", "inf"})
       => codec.w = Obj([integerValue |-> codec.v])

\* A list holding undefined has been handed to toValue, which threw.
C11_Witness ==
  /\ codec.pc = "encoded" /\ codec.v = Arr(<<JsInt(3), Undefined>>)
  /\ IsThrow(codec.w)

\* The stored (wire) value of field k of a document, or Undefined.
FieldOf(doc, k) == IF doc # NoDoc /\ k \in DOMAIN doc.f THEN doc.f[k] ELSE Undefined

DocKeys(doc) == IF doc = NoDoc THEN {} ELSE DOMAIN doc.f

\* The updates object of the patch that write w of job j carried.
UpdatesOf(j, w) ==
  IF w.op = "completed" THEN SuccessUpdates(j, jobs[j].out) ELSE FailureUpdates(j, jobs[j].out)

\* C12: a terminal patch writes exactly the fields of its updates object and
\* leaves every other field of the record as it was: destination, durationDays
\* and createdAt always, error under the success update, itinerary under the
\* failure update.
C12_PatchWritesOnlyItsFields ==
  [][\A j \in JobIds :
       (Len(writes'[j]) = Len(writes[j]) + 1 /\ writes'[j][Len(writes'[j])].op # "create")
       => LET w    == writes'[j][Len(writes'[j])]
              upd  == UpdatesOf(j, w)
              keys == DOMAIN upd.f
          IN /\ keys = IF w.op = "completed" THEN {"itinerary", "status", "completedAt"}
                                              ELSE {"status", "error", "completedAt"}
             /\ \A k \in (DocKeys(store[j]) \cup DocKeys(store'[j])) \ keys :
                  FieldOf(store'[j], k) = FieldOf(store[j], k)
             /\ \A k \in {"destination", "durationDays", "createdAt"} :
                  FieldOf(store'[j], k) = FieldOf(store[j], k)
             /\ w.op = "completed" => FieldOf(store'[j], "error") = FieldOf(store[j], "error")
             /\ w.op = "failed" => FieldOf(store'[j], "itinerary") = FieldOf(store[j], "itinerary")
             /\ w.applied => \A k \in keys : FieldOf(store'[j], k) = toValue(upd.f[k])
             /\ ~w.applied => store'[j] = store[j]]_vars

\* The success patch has been applied to a record the create had stored, and
\* the record still holds the destination of the request.
C12_Witness ==
  \E j \in JobIds :
    /\ Len(writes[j]) = 2 /\ writes[j][1].applied
    /\ writes[j][2].op = "completed" /\ writes[j][2].applied
    /\ FieldOf(store[j], "destination") = toValue(Paris)
    /\ FieldOf(store[j], "status") = toValue(Completed)

\* The terminal patches issued so far for job j.
PatchesOf(j) == { k \in 1..Len(writes[j]) : writes[j][k].op # "create" }

\* C14: the background task issues at most one terminal patch per job; a
\* patch that failed is followed by no other store write for the job.
C14_AtMostOneTerminalPatch ==
  \A j \in JobIds : Cardinality(PatchesOf(j)) <= 1

\* The Activity and Day shapes: string time, description and location; day a
\* positive integer, theme a string, activities a list of Activities.
ActivityShapeOk(v) ==
  /\ v.t = "obj"
  /\ \A k \in {"time", "description", "location"} : k \in DOMAIN v.f /\ v.f[k].t = "str"

DayShapeOk(v) ==
  /\ v.t = "obj"
  /\ {"day", "theme", "activities"} \subseteq DOMAIN v.f
  /\ v.f.day.t = "num" /\ v.f.day.frac = <<>> /\ ~v.f.day.neg /\ v.f.day.int # <<0>>
  /\ v.f.theme.t = "str"
  /\ v.f.activities.t = "arr"
  /\ \A i \in 1..Len(v.f.activities.a) : ActivityShapeOk(v.f.activities.a[i])

\* What the generative service's answer gave is a list of Days.
GeneratedOk(job) ==
  /\ job.retry.do = "return"
  /\ job.last.t = "arr"
  /\ \A i \in 1..Len(job.last.a) : DayShapeOk(job.last.a[i])

\* C15: a success update is issued, and a record is completed, only when every
\* element of the generated array has the Day shape; when an element deviates
\* the failure update is issued and no generated day reaches the record.
C15_NoPartiallyValidOutput ==
  \A j \in JobIds :
    LET job == jobs[j]
    IN /\ (job.pc = "patchOk" \/ \E k \in PatchesOf(j) : writes[j][k].op = "completed")
            => GeneratedOk(job)
       /\ FieldOf(store[j], "status") = toValue(Completed) => GeneratedOk(job)
       /\ (job.retry.do = "return" /\ ~GeneratedOk(job))
            => /\ job.pc \in {"patchFail", "done"}
               /\ job.pc = "patchFail" => job.out = MsgZodError
               /\ job.pc = "done"
                    => /\ LastWrite(j).op = "failed"
                       /\ LastWrite(j).applied
                            => /\ FieldOf(store[j], "status") = toValue(Failed)
                               /\ FieldOf(store[j], "error") = toValue(MsgZodError)
               /\ FieldOf(store[j], "itinerary") \in {Undefined, toValue(Arr(<<>>))}

\* The generative service returned a valid day followed by one whose number is
\* 0, and the failure update has been applied.
C15_Witness ==
  \E j \in JobIds :
    /\ jobs[j].pc = "done" /\ jobs[j].retry.do = "return"
    /\ jobs[j].last = Arr(<<Day1, BadDay>>)
    /\ LastWrite(j).op = "failed" /\ LastWrite(j).applied
    /\ FieldOf(store[j], "status") = toValue(Failed)

\* The retry loop of job j has ended on a format error of the generative
\* service's answer: text that is not JSON, or JSON without the itinerary.
EndedOnFormatError(job) ==
  /\ job.pc = "patchFail" /\ job.calls > 0
  /\ \/ job.retry.do = "throw" /\ job.last = Throw(MsgSyntaxError)
     \/ job.retry.do = "return" /\ job.last = Undefined

\* C16: an answer that is not JSON, or is JSON without the itinerary array, is
\* retried: the job is routed to failed on such an answer only after 3 calls
\* of the generative service, with waits of 1000 and 2000 ms.
C16_FormatErrorsAreRetried ==
  \A j \in JobIds :
    EndedOnFormatError(jobs[j])
    => jobs[j].calls = 3 /\ jobs[j].waits = <<1000, 2000>>

\* C17: no minted token authorizes two store calls: the create and the
\* terminal patch of a job, and a status read, each carry a token of their own.
C17_NoTokenUsedTwice ==
  \A j \in JobIds :
    /\ \A a, b \in 1..Len(writes[j]) : a # b => writes[j][a].token # writes[j][b].token
    /\ \A g \in GetIds :
         (gets[g].pc = "read" /\ gets[g].id = j)
         => \A a \in 1..Len(writes[j]) : writes[j][a].token # gets[g].token

\* C18: a POST / whose token exchange failed or gave no access_token ends with
\* the error thrown to its caller: no create is sent, no record exists for the
\* id, no background task runs and no 202 with a jobId is returned.  A request
\* that has taken its id has no token only while the exchange is under way
\* or when it gave none.
C18_FailedMintStopsCreate ==
  \A j \in JobIds :
    (jobs[j].pc # "free" /\ jobs[j].token = Undefined)
    => /\ jobs[j].pc \in {"key", "sign", "exchange", "mint", "aborted"}
       /\ jobs[j].pc = "aborted"
            => /\ jobs[j].resp.kind = "exception"
               /\ jobs[j].resp.error \in {MsgTokenFailed, MsgFetchFailed, MsgTypeError}
       /\ jobs[j].pc # "aborted" => jobs[j].resp = NoResp
       /\ writes[j] = <<>>
       /\ store[j] = NoDoc
       /\ jobs[j].inflight = {}
       /\ jobs[j].calls = 0 /\ jobs[j].retry = NoTurn

\* A POST / has ended on an exchange answer without access_token while another
\* request has gone on to create its record.
C18_Witness ==
  \E j, k \in JobIds :
    /\ jobs[j].pc = "aborted" /\ jobs[j].token = Undefined
    /\ jobs[j].resp.kind = "exception" /\ jobs[j].resp.error = MsgTokenFailed
    /\ k # j /\ store[k] # NoDoc

\* C19: at most one store write (create or patch) of a job is in flight at any
\* moment; while the create is in flight the background task has not started.
C19_OneWriteInFlight ==
  \A j \in JobIds :
    /\ Cardinality(jobs[j].inflight) <= 1
    /\ "create" \in jobs[j].inflight
         => jobs[j].pc = "save" /\ jobs[j].calls = 0 /\ jobs[j].retry = NoTurn

\* The create and the success patch of a job have ended and its failure patch
\* is in flight.
C19_Witness ==
  \E j \in JobIds :
    /\ jobs[j].inflight = {"failed"}
    /\ Len(writes[j]) = 2 /\ writes[j][2].op = "completed"

\* Every field of the record under id j that is there comes from job j: its
\* request, its timestamps, its own generation or error.
OwnRecord(doc, job, j) ==
  /\ FieldOf(doc, "destination") \in {Undefined, toValue(Prop(job.body, "destination"))}
  /\ FieldOf(doc, "durationDays") \in {Undefined, toValue(Prop(job.body, "durationDays"))}
  /\ FieldOf(doc, "createdAt") \in {Undefined, toValue(CreatedAtOf(j))}
  /\ FieldOf(doc, "completedAt")
       \in {Undefined, toValue(Null), toValue(CompletedAtOk(j)), toValue(CompletedAtFail(j))}
  /\ FieldOf(doc, "itinerary") # toValue(Arr(<<>>))
       => \/ FieldOf(doc, "itinerary") = Undefined
          \/ /\ job.retry.do = "return"
             /\ ItinerarySchemaParse(Obj([itinerary |-> job.last]))
                  = Obj([itinerary |-> fromValue(RenderValue(FieldOf(doc, "itinerary")))])

\* C20: jobs are isolated, whatever the order of the steps of the requests
\* and tasks under way. A step changes the record of at most one id, and only
\* as a store write of the job with that id; a step of a job leaves the other
\* jobs, their records and every status request as they are; a step of a
\* status request changes no record and no job; a status read takes the
\* record of the id asked for, as it is at the moment of the read, and is
\* answered from what it took; and every record holds data of its own job
\* only.
C20_JobsAreIsolated ==
  /\ [](\A d \in JobIds : OwnRecord(store[d], jobs[d], d))
  /\ [][/\ \A d \in JobIds :
             store'[d] # store[d]
             => /\ Len(writes'[d]) = Len(writes[d]) + 1
                /\ \A k \in JobIds \ {d} :
                     store'[k] = store[k] /\ jobs'[k] = jobs[k] /\ writes'[k] = writes[k]
        /\ \A d \in JobIds :
             (jobs'[d] # jobs[d] \/ writes'[d] # writes[d])
             => /\ gets' = gets
                /\ \A k \in JobIds \ {d} :
                     store'[k] = store[k] /\ jobs'[k] = jobs[k] /\ writes'[k] = writes[k]
        /\ \A g \in GetIds :
             gets'[g] # gets[g]
             => /\ UNCHANGED <<posts, store, writes, jobs>>
                /\ \A h \in GetIds \ {g} : gets'[h] = gets[h]
                /\ (gets[g].pc \notin {"idle", "done"} => gets'[g].id = gets[g].id)
        /\ \A g \in GetIds :
             (gets[g].pc = "read" /\ gets'[g].pc = "answer")
             => /\ gets'[g].found = (store[gets[g].id] # NoDoc)
                /\ (gets'[g].res.kind = "http" /\ gets'[g].res.ok)
                     => getFirestoreDocument(gets'[g].res) = Record(gets[g].id)
        /\ \A g \in GetIds :
             (gets[g].pc = "answer" /\ gets'[g].pc = "json") => gets'[g].res = gets[g].res
        /\ \A g \in GetIds :
             (gets[g].pc = "json" /\ gets'[g].pc = "done")
             => (gets'[g].resp.kind = "response"
                   => /\ gets'[g].resp = jsonResponse(getFirestoreDocument(gets[g].res), 200)
                      /\ Prop(gets'[g].resp.body.value, "createdAt")
                           \in {Undefined, CreatedAtOf(gets[g].id)})]_vars

\* Both jobs have a record, one completed and one failed; a status request
\* for the second has been answered while one for the first still waits for
\* the body of the store's answer.
C20_Witness ==
  /\ FieldOf(store[1], "status") = toValue(Completed)
  /\ FieldOf(store[2], "status") = toValue(Failed)
  /\ \E g, h \in GetIds :
       /\ gets[g].pc = "done" /\ gets[g].id = 2 /\ gets[g].resp.kind = "response"
       /\ gets[h].pc = "json" /\ gets[h].id = 1

====
